---- MODULE Spec2Model ----
(***************************************************************************)
(* The search-index worker of logger-spirit                                *)
(* (src/src/workers/search-index.worker.ts): the per-workspace index       *)
(* kept by applyIndexDelta and the query engine runSearch, with the line   *)
(* metadata extractor they rest on.                                        *)
(*                                                                         *)
(* Strings are sequences of UTF-16 code units (65 is "A", 10 is "\n").     *)
(* The text of a timestamp is one glyph, a code above the UTF-16 range     *)
(* that carries the instant: IsoGlyph(n) stands for the ISO-8601 text of   *)
(* epoch millisecond n, NgxGlyph(n) for the bracketed access-log form of   *)
(* n, BadIsoGlyph for a text that the ISO pattern matches and Date.parse   *)
(* rejects.  An optional value (a field that may be undefined) is a        *)
(* sequence of length 0 or 1.                                              *)
(***************************************************************************)
EXTENDS Integers, Sequences, FiniteSets, TLC

VARIABLES workspaceIndexes, request, outbox, upload, calls, output, extraction, tar,
          inbox, workspaceSummaries, storedIndex, creating, renaming, issued, clock,
          activeWorkspaceId, activeManifestId, switching, loading, roots, unreadable,
          importing, importRun,
          indexedSignatures, passes, indexStatus,
          indexingWasActive, pendingSearchAfterIndex, indexEffectSeen, searchEffectSeen,
          realtimeEffectSeen,
          searchInput, latestSearchRequestId, searchView

workerVars == <<workspaceIndexes, request, outbox>>

archiveVars == <<upload, calls, output, extraction, tar>>

nameVars == <<workspaceSummaries, storedIndex, creating, renaming, issued, clock>>

\* the active workspace and its files in the storage directory
rootVars == <<activeWorkspaceId, activeManifestId, switching, loading, roots, unreadable,
              importing, importRun>>

\* the state and the refs of the page behind buildSearchIndex
indexVars == <<indexedSignatures, passes, indexStatus, indexingWasActive, indexEffectSeen>>

\* the state and the refs of the page behind executeSearch
searchVars == <<pendingSearchAfterIndex, searchEffectSeen, realtimeEffectSeen, searchInput,
                latestSearchRequestId, searchView>>

viewVars == <<nameVars, rootVars, indexVars, searchVars>>

pageVars == <<inbox, viewVars>>

vars == <<workspaceIndexes, request, outbox, upload, calls, output, extraction, tar,
          inbox, workspaceSummaries, storedIndex, creating, renaming, issued, clock,
          activeWorkspaceId, activeManifestId, switching, loading, roots, unreadable,
          importing, importRun,
          indexedSignatures, passes, indexStatus,
          indexingWasActive, pendingSearchAfterIndex, indexEffectSeen, searchEffectSeen,
          realtimeEffectSeen,
          searchInput, latestSearchRequestId, searchView>>

----------------------------------------------------------------------------
(* Strings *)

None == <<>>

Some(x) == <<x>>

IsoGlyph(n) == 100000 + n

NgxGlyph(n) == 200000 + n

BadIsoGlyph == <<300000>>

IsIsoMatch(c) == (c >= 90000 /\ c < 110000) \/ c = 300000

IsNgxMatch(c) == c >= 190000 /\ c < 210000

LowerCh(c) == IF c >= 65 /\ c <= 90 THEN c + 32 ELSE c

UpperCh(c) == IF c >= 97 /\ c <= 122 THEN c - 32 ELSE c

toLowerCase(s) == [i \in 1..Len(s) |-> LowerCh(s[i])]

toUpperCase(s) == [i \in 1..Len(s) |-> UpperCh(s[i])]

IsSpace(c) == c \in {9, 10, 11, 12, 13, 32}

IsWordCh(c) ==
    \/ c >= 48 /\ c <= 57
    \/ c >= 65 /\ c <= 90
    \/ c >= 97 /\ c <= 122
    \/ c = 95

StartsAt(s, p, i) ==
    /\ i + Len(p) - 1 <= Len(s)
    /\ \A j \in 1..Len(p) : s[i + j - 1] = p[j]

includes(s, p) == \E i \in 1..(Len(s) - Len(p) + 1) : StartsAt(s, p, i)

\* mutant: the white space around the string is kept
trim_Keep(s) == s

trim(s) ==
    LET keep == {i \in 1..Len(s) : ~IsSpace(s[i])}
    IN  IF keep = {} THEN <<>>
        ELSE LET a == CHOOSE i \in keep : \A j \in keep : i <= j
                 b == CHOOSE i \in keep : \A j \in keep : j <= i
             IN  SubSeq(s, a, b)

Min(a, b) == IF a < b THEN a ELSE b

Max(a, b) == IF a > b THEN a ELSE b

Least(S) == CHOOSE i \in S : \A j \in S : i <= j

Range(s) == {s[i] : i \in 1..Len(s)}

(* text.split(/\r?\n/).  The text is cut at the line break nearest to its   *)
(* middle and both parts are split in turn, so that the depth of the        *)
(* evaluation grows with the logarithm of the number of lines.              *)
RECURSIVE splitLines(_)
splitLines(s) ==
    LET nl == {i \in 1..Len(s) : s[i] = 10}
        Away(i) == IF 2 * i >= Len(s) THEN 2 * i - Len(s) ELSE Len(s) - 2 * i
    IN  IF nl = {} THEN <<s>>
        ELSE LET i == CHOOSE k \in nl : \A j \in nl :
                          Away(k) < Away(j) \/ (Away(k) = Away(j) /\ k <= j)
                 e == IF i > 1 /\ s[i - 1] = 13 THEN i - 2 ELSE i - 1
             IN  splitLines(SubSeq(s, 1, e)) \o splitLines(SubSeq(s, i + 1, Len(s)))

----------------------------------------------------------------------------
(* Line metadata *)

normalizeToken(value) ==
    IF value = None \/ value[1] = <<>> THEN None
    ELSE LET trimmed == trim(value[1])
         IN  IF trimmed = <<>> THEN None ELSE Some(trimmed)

parseTimestamp(line) ==
    LET iso == {i \in 1..Len(line) : IsIsoMatch(line[i])}
        ngx == {i \in 1..Len(line) : IsNgxMatch(line[i])}
    IN  IF iso # {} /\ <<line[Least(iso)]>> # BadIsoGlyph
        THEN Some(line[Least(iso)] - 100000)
        ELSE IF ngx # {} THEN Some(line[Least(ngx)] - 200000)
        ELSE None

LevelWords ==
    << <<84, 82, 65, 67, 69>>,     \* "TRACE"
       <<68, 69, 66, 85, 71>>,     \* "DEBUG"
       <<73, 78, 70, 79>>,         \* "INFO"
       <<87, 65, 82, 78>>,         \* "WARN"
       <<69, 82, 82, 79, 82>>,     \* "ERROR"
       <<70, 65, 84, 65, 76>> >>   \* "FATAL"

\* /\b(TRACE|DEBUG|INFO|WARN|ERROR|FATAL)\b/i matches at i with word w
LevelAt(line, i, w) ==
    /\ StartsAt(toUpperCase(line), w, i)
    /\ (i = 1 \/ ~IsWordCh(line[i - 1]))
    /\ (i + Len(w) > Len(line) \/ ~IsWordCh(line[i + Len(w)]))

LevelHits(line) ==
    {i \in 1..Len(line) : \E k \in 1..Len(LevelWords) : LevelAt(line, i, LevelWords[k])}

\* match[1].toUpperCase() for the match at position i
LevelFound(line, i) ==
    toUpperCase(SubSeq(line, i,
        i + Len(LevelWords[Least({m \in 1..Len(LevelWords) :
                                     LevelAt(line, i, LevelWords[m])})]) - 1))

parseLevel(line) ==
    IF LevelHits(line) = {} THEN None
    ELSE Some(LevelFound(line, Least(LevelHits(line))))

IsValueCh(c) == ~IsSpace(c) /\ c # 34 /\ c # 39

\* the pattern `${key}=` under flag i at position i; "." in a key is the wildcard
KeyAt(line, key, i) ==
    /\ i + Len(key) <= Len(line)
    /\ \A j \in 1..Len(key) :
          key[j] = 46 \/ LowerCh(line[i + j - 1]) = LowerCh(key[j])
    /\ line[i + Len(key)] = 61

\* where `${key}=([^\s"']+)` matches in line
KeyHits(line, key) ==
    {i \in 1..Len(line) :
        /\ KeyAt(line, key, i)
        /\ i + Len(key) + 1 <= Len(line)
        /\ IsValueCh(line[i + Len(key) + 1])}

\* the capture group: the longest run of value characters from position from
ValueFrom(line, from) ==
    SubSeq(line, from,
           Least({j \in from..(Len(line) + 1) : j > Len(line) \/ ~IsValueCh(line[j])}) - 1)

KeyValueOf(line, key) == ValueFrom(line, Least(KeyHits(line, key)) + Len(key) + 1)

\* the first key of keys, in order, whose pattern matches
FirstKeyValue(line, keys, found) ==
    IF found = {} THEN None ELSE Some(KeyValueOf(line, keys[Least(found)]))

parseKeyValue(line, keys) ==
    FirstKeyValue(line, keys, {k \in 1..Len(keys) : KeyHits(line, keys[k]) # {}})

detectTags(line) ==
    LET lower == toLowerCase(line)
        Tag(name, needles) ==
            IF \E k \in 1..Len(needles) : includes(lower, needles[k])
            THEN <<name>> ELSE <<>>
    IN  Tag("timeout",
            << <<116, 105, 109, 101, 111, 117, 116>>,             \* "timeout"
               <<100, 101, 97, 100, 108, 105, 110, 101, 32,
                 101, 120, 99, 101, 101, 100, 101, 100>> >>)      \* "deadline exceeded"
        \o Tag("conn_refused",
            << <<99, 111, 110, 110, 101, 99, 116, 105, 111, 110, 32,
                 114, 101, 102, 117, 115, 101, 100>>,             \* "connection refused"
               <<99, 111, 110, 110, 32,
                 114, 101, 102, 117, 115, 101, 100>>,             \* "conn refused"
               <<101, 99, 111, 110, 110,
                 114, 101, 102, 117, 115, 101, 100>> >>)          \* "econnrefused"
        \o Tag("retry",
            << <<114, 101, 116, 114, 121>>,                       \* "retry"
               <<98, 97, 99, 107, 111, 102, 102>> >>)             \* "backoff"
        \o Tag("circuit_breaker",
            << <<99, 105, 114, 99, 117, 105, 116, 32,
                 98, 114, 101, 97, 107, 101, 114>>,               \* "circuit breaker"
               <<29076, 26029>> >>)                               \* U+7194 U+65AD
        \o Tag("oom",
            << <<111, 111, 109>>,                                 \* "oom"
               <<111, 117, 116, 111, 102, 109, 101, 109, 111, 114, 121>> >>)  \* "outofmemory"
        \o Tag("throttling",
            << <<116, 104, 114, 111, 116, 116, 108>> >>)          \* "throttl"
        \o Tag("unavailable",
            << <<117, 110, 97, 118, 97, 105, 108, 97, 98, 108, 101>>,  \* "unavailable"
               <<53, 48, 51>> >>)                                 \* "503"

parseLineMeta(line) ==
    [timestamp |-> parseTimestamp(line),
     traceId   |-> normalizeToken(parseKeyValue(line,
                     << <<116, 114, 97, 99, 101, 73, 100>>,       \* "traceId"
                        <<116, 114, 97, 99, 101, 95, 105, 100>>,  \* "trace_id"
                        <<116, 114, 97, 99, 101>> >>)),           \* "trace"
     spanId    |-> normalizeToken(parseKeyValue(line,
                     << <<115, 112, 97, 110, 73, 100>>,           \* "spanId"
                        <<115, 112, 97, 110, 95, 105, 100>>,      \* "span_id"
                        <<115, 112, 97, 110>> >>)),               \* "span"
     pod       |-> normalizeToken(parseKeyValue(line,
                     << <<112, 111, 100>>,                        \* "pod"
                        <<112, 111, 100, 78, 97, 109, 101>>,      \* "podName"
                        <<112, 111, 100, 95, 110, 97, 109, 101>> >>)),  \* "pod_name"
     container |-> normalizeToken(parseKeyValue(line,
                     << <<99, 111, 110, 116, 97, 105, 110, 101, 114>>,  \* "container"
                        <<99, 111, 110, 116, 97, 105, 110, 101, 114,
                          78, 97, 109, 101>>,                     \* "containerName"
                        <<99, 111, 110, 116, 97, 105, 110, 101, 114,
                          95, 110, 97, 109, 101>> >>)),           \* "container_name"
     namespace |-> normalizeToken(parseKeyValue(line,
                     << <<110, 97, 109, 101, 115, 112, 97, 99, 101>>,  \* "namespace"
                        <<110, 115>>,                             \* "ns"
                        <<107, 56, 115, 46, 110, 97, 109, 101,
                          115, 112, 97, 99, 101>> >>)),           \* "k8s.namespace"
     level     |-> parseLevel(line),
     tags      |-> detectTags(line)]

----------------------------------------------------------------------------
(* The workspace index: workspaceIndexes maps a workspace id to its two     *)
(* Maps.  files is a Map in insertion order, a sequence of key/value        *)
(* entries; signatures is never iterated, a function on its keys.           *)

MapHas(m, k) == \E i \in 1..Len(m) : m[i].key = k

MapGet(m, k) == m[CHOOSE i \in 1..Len(m) : m[i].key = k].value

MapKeys(m) == {m[i].key : i \in 1..Len(m)}

\* Map.prototype.set: an existing key keeps its place, a new key goes last
MapSet(m, k, v) ==
    IF MapHas(m, k)
    THEN [i \in 1..Len(m) |-> IF m[i].key = k THEN [key |-> k, value |-> v] ELSE m[i]]
    ELSE Append(m, [key |-> k, value |-> v])

\* Map.prototype.delete
MapDelete(m, k) ==
    LET Keep(e) == e.key # k
    IN  SelectSeq(m, Keep)

SigGet(sigs, k) == IF k \in DOMAIN sigs THEN Some(sigs[k]) ELSE None

SigSet(sigs, k, v) == [x \in (DOMAIN sigs) \cup {k} |-> IF x = k THEN v ELSE sigs[x]]

SigDelete(sigs, k) == [x \in (DOMAIN sigs) \ {k} |-> sigs[x]]

EmptyWorkspace == [files |-> <<>>, signatures |-> <<>>]

\* a fresh state at every call
ensureWorkspace_Fresh(indexes, workspaceId) == [files |-> <<>>, signatures |-> <<>>]

\* the state ensureWorkspace returns: the stored one, or a fresh empty one
ensureWorkspace(indexes, workspaceId) ==
    IF workspaceId \in DOMAIN indexes THEN indexes[workspaceId] ELSE EmptyWorkspace

\* the tags of all lines in first-seen order, as the Set anomalySet iterates
RECURSIVE AnomalySet(_, _)
AnomalySet(tags, acc) ==
    IF tags = <<>> THEN acc
    ELSE AnomalySet(Tail(tags),
                    IF \E i \in 1..Len(acc) : acc[i] = Head(tags)
                    THEN acc ELSE Append(acc, Head(tags)))

\* the concatenation of the sequences, halving the list at each step
RECURSIVE Flatten(_)
Flatten(seqs) ==
    IF seqs = <<>> THEN <<>>
    ELSE IF Len(seqs) = 1 THEN seqs[1]
    ELSE Flatten(SubSeq(seqs, 1, Len(seqs) \div 2))
             \o Flatten(SubSeq(seqs, Len(seqs) \div 2 + 1, Len(seqs)))

RetryStormThreshold == 20

\* mutant: retry_storm needs more than the threshold
AnomalyTags_Above(allTags) ==
    IF Cardinality({i \in 1..Len(allTags) : allTags[i] = "retry"}) > RetryStormThreshold
    THEN Append(AnomalySet(allTags, <<>>), "retry_storm")
    ELSE AnomalySet(allTags, <<>>)

\* the anomaly tags of a file from the tags of its lines, in line order
AnomalyTags(allTags) ==
    IF Cardinality({i \in 1..Len(allTags) : allTags[i] = "retry"}) >= RetryStormThreshold
    THEN Append(AnomalySet(allTags, <<>>), "retry_storm")
    ELSE AnomalySet(allTags, <<>>)

LineMetasOf(lines) == [i \in 1..Len(lines) |-> parseLineMeta(lines[i])]

ParsedLines(text, lines, lineMetas) ==
    [lowerText   |-> toLowerCase(text),
     lines       |-> lines,
     lowerLines  |-> [i \in 1..Len(lines) |-> toLowerCase(lines[i])],
     lineMetas   |-> lineMetas,
     anomalyTags |-> AnomalyTags(Flatten([i \in 1..Len(lines) |-> lineMetas[i].tags]))]

\* the part of buildIndexedFile that reads payload.text
ParseText(text) == ParsedLines(text, splitLines(text), LineMetasOf(splitLines(text)))

(* The file texts of the request sets *)

IndexTexts ==
    { <<69, 82, 82, 79, 82, 32, 120>>,                    \* "ERROR x"
      <<73, 78, 70, 79, 32, 97, 13, 10,
        114, 101, 116, 114, 121, 32, 98>> }               \* "INFO a\r\nretry b"

\* the number of "retry b" lines of LongText
LongLines == 21

\* "INFO a" followed by LongLines lines "retry b", separated by "\n"
LongText ==
    <<73, 78, 70, 79, 32, 97>>
        \o Flatten([i \in 1..LongLines |-> <<10, 114, 101, 116, 114, 121, 32, 98>>])

SearchTexts == IndexTexts \cup {LongText}

\* the line timestamps of FilterText are -MaxT .. MaxT milliseconds
MaxT == 1

\* one line "<ISO timestamp of t ms> x" for each t, then four lines without
\* a timestamp that carry level, pod, container and namespace fields
FilterText ==
    Flatten([j \in 1..(2 * MaxT + 1) |-> <<IsoGlyph(j - MaxT - 1), 32, 120, 10>>])
        \o <<32, 69, 82, 82, 79, 82, 32, 112, 111, 100, 61, 65, 112, 105, 45, 49,
             32, 110, 97, 109, 101, 115, 112, 97, 99, 101, 61, 80, 114, 111, 100,
             10>>                       \* " ERROR pod=Api-1 namespace=Prod"
        \o <<32, 105, 110, 102, 111, 32, 99, 111, 110, 116, 97, 105, 110, 101,
             114, 61, 119, 101, 98, 10>>            \* " info container=web"
        \o <<32, 87, 65, 82, 78, 32, 112, 111, 100, 61, 100, 98, 32, 110, 115, 61,
             100, 101, 118, 32, 99, 111, 110, 116, 97, 105, 110, 101, 114, 61,
             87, 101, 98, 45, 50, 10>>  \* " WARN pod=db ns=dev container=Web-2"
        \o <<112, 108, 97, 105, 110, 32, 108, 105, 110, 101>>    \* "plain line"

FilterTexts == {FilterText}

RECURSIVE JoinLines(_)
\* the lines joined with "\n"
JoinLines(lines) ==
    IF Len(lines) = 1 THEN lines[1]
    ELSE lines[1] \o <<10>> \o JoinLines(Tail(lines))

(* A file whose lines carry timestamps (two of them equal, one of them 0),  *)
(* trace and span ids, levels, pods, namespaces and tags.                   *)
EventsText ==
    JoinLines(<<
      <<IsoGlyph(2), 32, 69, 82, 82, 79, 82, 32, 112, 111, 100, 61, 97, 112, 105,
        32, 110, 115, 61, 112, 114, 111, 100, 32, 116, 105, 109, 101, 111, 117,
        116>>,                        \* "<2> ERROR pod=api ns=prod timeout"
      <<IsoGlyph(1), 32, 69, 82, 82, 79, 82, 32, 112, 111, 100, 61, 97, 112, 105,
        32, 114, 101, 116, 114, 121, 32, 116, 105, 109, 101, 111, 117, 116>>,
                                      \* "<1> ERROR pod=api retry timeout"
      <<IsoGlyph(1), 32, 73, 78, 70, 79, 32, 112, 111, 100, 61, 99, 111, 110, 115,
        116, 114, 117, 99, 116, 111, 114, 32, 116, 114, 97, 99, 101, 73, 100,
        61, 116, 49>>,                \* "<1> INFO pod=constructor traceId=t1"
      <<IsoGlyph(0), 32, 87, 65, 82, 78, 32, 120>>,       \* "<0> WARN x"
      <<112, 108, 97, 105, 110, 32, 116, 114, 97, 99, 101, 73, 100, 61, 116,
        50>>,                                             \* "plain traceId=t2"
      <<115, 112, 97, 110, 73, 100, 61, 115, 49, 32, 111, 111, 109>>,
                                                          \* "spanId=s1 oom"
      <<110, 111, 116, 104, 105, 110, 103>> >>)           \* "nothing"

\* a second file: a timestamp that EventsText also has, and an untimed trace
MoreEventsText ==
    JoinLines(<<
      <<IsoGlyph(1), 32, 69, 82, 82, 79, 82, 32, 110, 115, 61, 112, 114, 111,
        100>>,                                            \* "<1> ERROR ns=prod"
      <<116, 114, 97, 99, 101, 73, 100, 61, 116, 48, 32, 114, 101, 116, 114,
        121>> >>)                                         \* "traceId=t0 retry"

EventTexts == {EventsText, MoreEventsText}

\* the number of events timeline.slice keeps
TimelineLimit == 500

\* the timed lines of CapText are OverCap more than the timeline keeps
OverCap == 1

(* "traceId=t1 x", then one line "<t> x" for each t from                    *)
(* TimelineLimit + OverCap down to 1: the latest instant comes first.       *)
CapText(limit) ==
    <<116, 114, 97, 99, 101, 73, 100, 61, 116, 49, 32, 120>>
        \o Flatten([j \in 1..(limit + OverCap) |->
                       <<10, IsoGlyph(limit + OverCap + 1 - j), 32, 120>>])

\* the files of StormTexts have up to StormSpan lines tagged retry less and
\* more than the threshold of retry_storm
StormSpan == 1

\* a line tagged retry: by both of its words, by "Retry", or by "backoff"
StormLine(j) ==
    IF j % 3 = 0
    THEN <<114, 101, 116, 114, 121, 32, 98, 97, 99, 107, 111, 102, 102>>  \* "retry backoff"
    ELSE IF j % 3 = 1 THEN <<82, 101, 116, 114, 121, 32, 120>>            \* "Retry x"
    ELSE <<98, 97, 99, 107, 111, 102, 102>>                               \* "backoff"

\* n lines tagged retry; when noisy, between "timeout oom" and "nothing"
StormText(n, noisy) ==
    JoinLines((IF noisy THEN << <<116, 105, 109, 101, 111, 117, 116, 32, 111, 111, 109>> >>
               ELSE <<>>)
              \o [j \in 1..n |-> StormLine(j)]
              \o (IF noisy THEN << <<110, 111, 116, 104, 105, 110, 103>> >> ELSE <<>>))

StormTexts ==
    {StormText(n, noisy) :
        n \in (RetryStormThreshold - StormSpan)..(RetryStormThreshold + StormSpan),
        noisy \in BOOLEAN}

\* the most context lines runSearch gives on either side of a result
MaxContextLines == 8

\* the files of ContextTexts have up to ContextSpan lines more than a line
\* with MaxContextLines lines before it and after it needs
ContextSpan == 1

\* n lines "xa", "xb", ...: every line holds "x" and no two lines are equal
ContextText(n) == JoinLines([j \in 1..n |-> <<120, 96 + j>>])

ContextTexts == {ContextText(n) : n \in 1..(2 * MaxContextLines + 1 + ContextSpan)}

AllTexts ==
    SearchTexts \cup FilterTexts \cup EventTexts \cup {CapText(TimelineLimit)}
        \cup StormTexts \cup ContextTexts

\* ParseText of every text of the request sets, computed once
ParsedTexts == [t \in AllTexts |-> ParseText(t)]

CachedParse(text) ==
    IF text \in DOMAIN ParsedTexts THEN ParsedTexts[text] ELSE ParseText(text)

IndexedFile(payload, parsed) ==
    [workspaceId |-> payload.workspaceId,
     fileKey     |-> payload.fileKey,
     signature   |-> payload.signature,
     rootId      |-> payload.rootId,
     sourceName  |-> payload.sourceName,
     filePath    |-> payload.filePath,
     text        |-> payload.text,
     lowerText   |-> parsed.lowerText,
     lines       |-> parsed.lines,
     lowerLines  |-> parsed.lowerLines,
     lineMetas   |-> parsed.lineMetas,
     anomalyTags |-> parsed.anomalyTags]

buildIndexedFile(payload) == IndexedFile(payload, CachedParse(payload.text))

\* mutant: replace does not clear the workspace
ClearIfReplace_Keep(ws, replace) == ws

\* if (request.replace) { files.clear(); signatures.clear(); }
ClearIfReplace(ws, replace) == IF replace THEN EmptyWorkspace ELSE ws

\* request.removedFileKeys.forEach(delete), the keys in array order
RECURSIVE RemoveKeys(_, _)
RemoveKeys(ws, keys) ==
    IF keys = <<>> THEN ws
    ELSE RemoveKeys([files      |-> MapDelete(ws.files, Head(keys)),
                     signatures |-> SigDelete(ws.signatures, Head(keys))],
                    Tail(keys))

\* mutant: the signature test is dropped, every supplied file is re-parsed
ApplyFile_NeverSkip(ws, file) ==
    [files      |-> MapSet(ws.files, file.fileKey, buildIndexedFile(file)),
     signatures |-> SigSet(ws.signatures, file.fileKey, file.signature)]

\* the entry is stored and its signature is not
ApplyFile_KeepSignatures(ws, file) ==
    IF SigGet(ws.signatures, file.fileKey) = Some(file.signature)
    THEN ws
    ELSE [files      |-> MapSet(ws.files, file.fileKey, buildIndexedFile(file)),
          signatures |-> ws.signatures]

\* one turn of the loop over request.files
ApplyFile(ws, file) ==
    IF SigGet(ws.signatures, file.fileKey) = Some(file.signature)
    THEN ws
    ELSE [files      |-> MapSet(ws.files, file.fileKey, buildIndexedFile(file)),
          signatures |-> SigSet(ws.signatures, file.fileKey, file.signature)]

RECURSIVE ApplyFiles(_, _)
ApplyFiles(ws, files) ==
    IF files = <<>> THEN ws ELSE ApplyFiles(ApplyFile(ws, Head(files)), Tail(files))

\* mutant: the files are stored before the removals are applied
DeltaWorkspace_RemoveLast(indexes, req) ==
    RemoveKeys(
        ApplyFiles(ClearIfReplace(ensureWorkspace(indexes, req.workspaceId), req.replace),
                   req.files),
        req.removedFileKeys)

\* the workspace state applyIndexDelta leaves
DeltaWorkspace(indexes, req) ==
    ApplyFiles(
        RemoveKeys(ClearIfReplace(ensureWorkspace(indexes, req.workspaceId), req.replace),
                   req.removedFileKeys),
        req.files)

\* the IndexStatusResponse applyIndexDelta returns
DeltaStatus(ws, req) ==
    [type         |-> "indexStatus",
     workspaceId  |-> req.workspaceId,
     indexedFiles |-> Len(ws.files),
     changedFiles |-> Len(req.files),
     totalFiles   |-> req.totalFiles]

WithWorkspace(indexes, workspaceId, ws) ==
    [w \in (DOMAIN indexes) \cup {workspaceId} |->
        IF w = workspaceId THEN ws ELSE indexes[w]]

----------------------------------------------------------------------------
(* The query engine *)

\* JavaScript truthiness of an optional string and of an optional number
TruthyStr(v) == v # None /\ v[1] # <<>>

TruthyNum(v) == v # None /\ v[1] # 0

includesCaseAware(raw, lower, query, options) ==
    IF options.caseSensitive THEN includes(raw, query)
    ELSE includes(lower, toLowerCase(query))

\* mutant: the pod filter compares without lower-casing
matchesFilters_PodAsWritten(meta, filters) ==
    /\ ~(TruthyStr(filters.level) /\ meta.level # Some(toUpperCase(filters.level[1])))
    /\ TruthyStr(filters.pod) =>
          /\ TruthyStr(meta.pod)
          /\ includes(meta.pod[1], filters.pod[1])
    /\ TruthyStr(filters.container) =>
          /\ TruthyStr(meta.container)
          /\ includes(toLowerCase(meta.container[1]), toLowerCase(filters.container[1]))
    /\ TruthyStr(filters.namespace) =>
          /\ TruthyStr(meta.namespace)
          /\ includes(toLowerCase(meta.namespace[1]), toLowerCase(filters.namespace[1]))
    /\ filters.timeFrom # None =>
          /\ TruthyNum(meta.timestamp)
          /\ ~(meta.timestamp[1] < filters.timeFrom[1])
    /\ filters.timeTo # None =>
          /\ TruthyNum(meta.timestamp)
          /\ ~(meta.timestamp[1] > filters.timeTo[1])

matchesFilters(meta, filters) ==
    /\ ~(TruthyStr(filters.level) /\ meta.level # Some(toUpperCase(filters.level[1])))
    /\ TruthyStr(filters.pod) =>
          /\ TruthyStr(meta.pod)
          /\ includes(toLowerCase(meta.pod[1]), toLowerCase(filters.pod[1]))
    /\ TruthyStr(filters.container) =>
          /\ TruthyStr(meta.container)
          /\ includes(toLowerCase(meta.container[1]), toLowerCase(filters.container[1]))
    /\ TruthyStr(filters.namespace) =>
          /\ TruthyStr(meta.namespace)
          /\ includes(toLowerCase(meta.namespace[1]), toLowerCase(filters.namespace[1]))
    /\ filters.timeFrom # None =>
          /\ TruthyNum(meta.timestamp)
          /\ ~(meta.timestamp[1] < filters.timeFrom[1])
    /\ filters.timeTo # None =>
          /\ TruthyNum(meta.timestamp)
          /\ ~(meta.timestamp[1] > filters.timeTo[1])

createAggregation ==
    [byLevel |-> <<>>, byPod |-> <<>>, byNamespace |-> <<>>,
     bySource |-> <<>>, byTag |-> <<>>]

(* A bucket is a plain object: reading a key it does not own falls back on  *)
(* Object.prototype, so bucket[key] ?? 0 is 0 only for a name the prototype *)
(* does not define.  For "constructor" it is the function Object, and       *)
(* adding 1 to it is string concatenation.  A property value is therefore   *)
(* a number or a string.                                                    *)
Number(n) == [number |-> n]

Text(s) == [string |-> s]

IsNumber(v) == "number" \in DOMAIN v

\* String(Object), the text of the inherited "constructor"
ObjectFunctionText ==
    <<102, 117, 110, 99, 116, 105, 111, 110, 32, 79, 98, 106, 101, 99, 116, 40,
      41, 32, 123, 32, 91, 110, 97, 116, 105, 118, 101, 32, 99, 111, 100, 101,
      93, 32, 125>>                  \* "function Object() { [native code] }"

\* the inherited names among the keys of the request sets, as a line's field
\* and as a source or tag name
InheritedKeys == {<<99, 111, 110, 115, 116, 114, 117, 99, 116, 111, 114>>}  \* "constructor"

InheritedNames == {"constructor"}

\* (bucket[key] ?? 0) + 1
PlusOne(bucket, key, inherited) ==
    IF key \in DOMAIN bucket
    THEN IF IsNumber(bucket[key]) THEN Number(bucket[key].number + 1)
         ELSE Text(bucket[key].string \o <<49>>)
    ELSE IF key \in inherited THEN Text(ObjectFunctionText \o <<49>>)
    ELSE Number(1)

Bump(bucket, key, inherited) ==
    [x \in (DOMAIN bucket) \cup {key} |->
        IF x = key THEN PlusOne(bucket, key, inherited) ELSE bucket[x]]

\* addCount on an optional string (level, pod, namespace)
addCount(bucket, key) ==
    IF ~TruthyStr(key) THEN bucket ELSE Bump(bucket, key[1], InheritedKeys)

\* addCount on a name that is always a string (sourceName, a tag)
addCountName(bucket, key) ==
    IF key = "" THEN bucket ELSE Bump(bucket, key, InheritedNames)

RECURSIVE addCountNames(_, _)
addCountNames(bucket, keys) ==
    IF keys = <<>> THEN bucket
    ELSE addCountNames(addCountName(bucket, Head(keys)), Tail(keys))

\* String(n) for an integer n >= 0
RECURSIVE DecimalString(_)
DecimalString(n) ==
    IF n < 10 THEN <<48 + n>> ELSE DecimalString(n \div 10) \o <<48 + (n % 10)>>

(* String.prototype.localeCompare under the root collation, for ASCII:      *)
(* punctuation sorts before digits and digits before letters, letters       *)
(* compare without case first, and lower case goes before upper case when   *)
(* nothing else differs.                                                    *)
CollationRank(c) ==
    IF c >= 48 /\ c <= 57 THEN 100 + c
    ELSE IF c >= 65 /\ c <= 90 THEN 200 + c
    ELSE IF c >= 97 /\ c <= 122 THEN 200 + c - 32
    ELSE IF c = 95 THEN 1
    ELSE IF c = 45 THEN 2
    ELSE IF c = 58 THEN 5
    ELSE IF c = 46 THEN 8
    ELSE 10 + (c % 80)

RECURSIVE CompareSeq(_, _)
CompareSeq(a, b) ==
    IF a = <<>> /\ b = <<>> THEN 0
    ELSE IF a = <<>> THEN -1
    ELSE IF b = <<>> THEN 1
    ELSE IF Head(a) < Head(b) THEN -1
    ELSE IF Head(a) > Head(b) THEN 1
    ELSE CompareSeq(Tail(a), Tail(b))

localeCompare(a, b) ==
    LET CaseRank(c) == IF c >= 65 /\ c <= 90 THEN 1 ELSE 0
        primary == CompareSeq([i \in 1..Len(a) |-> CollationRank(a[i])],
                              [i \in 1..Len(b) |-> CollationRank(b[i])])
    IN  IF primary # 0 THEN primary
        ELSE CompareSeq([i \in 1..Len(a) |-> CaseRank(a[i])],
                        [i \in 1..Len(b) |-> CaseRank(b[i])])

compressPreview(line, maxLength) ==
    LET normalized == trim(line)
    IN  IF Len(normalized) <= maxLength THEN normalized
        ELSE SubSeq(normalized, 1, maxLength) \o <<46, 46, 46>>

(* new RegExp(query, flags), for the patterns made of literal characters,   *)
(* a leading "^" (94), a trailing "$" (36) and "(" (40), which opens a      *)
(* group that is never closed: the constructor throws.  None is the throw.  *)
CompileRegExp(query, caseSensitive) ==
    IF \E i \in 1..Len(query) : query[i] = 40 THEN None
    ELSE LET atStart == Len(query) >= 1 /\ query[1] = 94
             rest == IF atStart THEN Tail(query) ELSE query
             atEnd == Len(rest) >= 1 /\ rest[Len(rest)] = 36
         IN  Some([atStart |-> atStart, atEnd |-> atEnd,
                   body |-> IF atEnd THEN SubSeq(rest, 1, Len(rest) - 1) ELSE rest,
                   ignoreCase |-> ~caseSensitive])

\* regex.test(s): no m flag, so ^ and $ are the ends of s
RegExpTest(regex, s) ==
    LET hay == IF regex.ignoreCase THEN toLowerCase(s) ELSE s
        pat == IF regex.ignoreCase THEN toLowerCase(regex.body) ELSE regex.body
    IN  \E i \in 1..(Len(hay) - Len(pat) + 1) :
            /\ StartsAt(hay, pat, i)
            /\ regex.atStart => i = 1
            /\ regex.atEnd => i + Len(pat) - 1 = Len(hay)

hasAnyFilter(filters) ==
    \/ TruthyStr(filters.level)
    \/ TruthyStr(filters.namespace)
    \/ TruthyStr(filters.pod)
    \/ TruthyStr(filters.container)
    \/ filters.timeFrom # None
    \/ filters.timeTo # None

MinMaxResults == 20

MaxMaxResults == 3000

\* the whole-file test that decides whether the file's lines are scanned
FilePassesPreCheck(entry, query, regex, options) ==
    \/ IF regex # None THEN RegExpTest(regex[1], entry.text)
       ELSE includesCaseAware(entry.text, entry.lowerText, query, options)
    \/ query = <<>>

\* mutant: every line of a scanned file counts as matching the query
queryMatched_Always(entry, i, query, regex, options) == TRUE

\* queryMatched for the line at 1-based position i
queryMatched(entry, i, query, regex, options) ==
    IF query # <<>>
    THEN IF regex # None THEN RegExpTest(regex[1], entry.lines[i])
         ELSE includesCaseAware(entry.lines[i], entry.lowerLines[i], query, options)
    ELSE TRUE

LineQualifies(entry, i, query, regex, options) ==
    /\ queryMatched(entry, i, query, regex, options)
    /\ matchesFilters(entry.lineMetas[i], options.filters)

\* the SearchResult of the line at 1-based position i (index = i - 1)
MakeResult(entry, i, context) ==
    LET meta == entry.lineMetas[i]
        n == Len(entry.lines)
    IN  [id         |-> entry.fileKey \o <<58>> \o DecimalString(i - 1),
         fileKey    |-> entry.fileKey,
         rootId     |-> entry.rootId,
         sourceName |-> entry.sourceName,
         filePath   |-> entry.filePath,
         line       |-> i,
         preview    |-> compressPreview(entry.lines[i], 160),
         before     |-> SubSeq(entry.lines, Max(0, i - 1 - context) + 1, i - 1),
         after      |-> SubSeq(entry.lines, i + 1, Min(n, i + context)),
         timestamp  |-> meta.timestamp,
         traceId    |-> meta.traceId,
         spanId     |-> meta.spanId,
         pod        |-> meta.pod,
         container  |-> meta.container,
         namespace  |-> meta.namespace,
         level      |-> meta.level,
         tags       |-> meta.tags]

MakeTimelineEvent(entry, i) ==
    LET meta == entry.lineMetas[i]
    IN  [id         |-> <<116, 108, 58>> \o entry.fileKey \o <<58>> \o DecimalString(i - 1),
         timestamp  |-> meta.timestamp,
         traceId    |-> meta.traceId,
         spanId     |-> meta.spanId,
         rootId     |-> entry.rootId,
         sourceName |-> entry.sourceName,
         filePath   |-> entry.filePath,
         line       |-> i,
         message    |-> compressPreview(entry.lines[i], 140),
         level      |-> meta.level]

\* mutant: the key is listed once for each result
SetAdd_Repeat(members, x) == Append(members, x)

\* Set.prototype.add on a set kept in insertion order
SetAdd(members, x) ==
    IF \E k \in 1..Len(members) : members[k] = x THEN members
    ELSE Append(members, x)

\* the body of the line loop for a qualifying line, up to the cap test
PushLine(acc, entry, i, context) ==
    LET meta == entry.lineMetas[i]
        agg == acc.aggregation
    IN  [results         |-> Append(acc.results, MakeResult(entry, i, context)),
         matchedFiles    |-> SetAdd(acc.matchedFiles, entry.fileKey),
         fileMatchedTags |-> AnomalySet(meta.tags, acc.fileMatchedTags),
         aggregation     |->
             [bySource    |-> addCountName(agg.bySource, entry.sourceName),
              byLevel     |-> addCount(agg.byLevel, meta.level),
              byPod       |-> addCount(agg.byPod, meta.pod),
              byNamespace |-> addCount(agg.byNamespace, meta.namespace),
              byTag       |-> addCountNames(agg.byTag, meta.tags)],
         timeline        |-> IF TruthyNum(meta.timestamp) \/ TruthyStr(meta.traceId)
                                \/ TruthyStr(meta.spanId)
                             THEN Append(acc.timeline, MakeTimelineEvent(entry, i))
                             ELSE acc.timeline]

\* one turn of the loop over entry.lines, up to the cap test
ScanLine(acc, entry, i, ctx) ==
    IF ~LineQualifies(entry, i, ctx.query, ctx.regex, ctx.options) THEN acc
    ELSE PushLine(acc, entry, i, ctx.context)

(* The turns for the positions lo..hi, taken in order.  The loop breaks     *)
(* when a push has brought results to the cap; results is below the cap     *)
(* when the loop starts, so no later turn runs once the cap is reached.     *)
(* The range is halved so that the depth of the evaluation stays small.     *)
RECURSIVE ScanRange(_, _, _, _, _)
ScanRange(acc, entry, lo, hi, ctx) ==
    IF lo > hi \/ Len(acc.results) >= ctx.maxResults THEN acc
    ELSE IF lo = hi THEN ScanLine(acc, entry, lo, ctx)
    ELSE ScanRange(ScanRange(acc, entry, lo, (lo + hi) \div 2, ctx),
                   entry, (lo + hi) \div 2 + 1, hi, ctx)

\* the loop over entry.lines from position i on
ScanLines(acc, entry, i, ctx) == ScanRange(acc, entry, i, Len(entry.lines), ctx)

\* after the line loop: the file's anomaly tags, then the tags of its matched lines
TagFile(scanned, entry) ==
    [scanned EXCEPT !.aggregation.byTag =
        addCountNames(
            IF \E k \in 1..Len(scanned.matchedFiles) :
                   scanned.matchedFiles[k] = entry.fileKey
            THEN addCountNames(scanned.aggregation.byTag, entry.anomalyTags)
            ELSE scanned.aggregation.byTag,
            scanned.fileMatchedTags)]

\* one turn of the loop over workspace.files for a file that is scanned
ScanFile(acc, entry, ctx) ==
    TagFile(ScanLines([acc EXCEPT !.fileMatchedTags = <<>>], entry, 1, ctx), entry)

RECURSIVE ScanFiles(_, _, _)

\* after a scanned file: break at the cap, else go on with the next file
AfterFile(scanned, files, ctx) ==
    IF Len(scanned.results) >= ctx.maxResults THEN scanned
    ELSE ScanFiles(scanned, Tail(files), ctx)

\* the loop over workspace.files.values()
ScanFiles(acc, files, ctx) ==
    IF files = <<>> THEN acc
    ELSE IF ~FilePassesPreCheck(Head(files).value, ctx.query, ctx.regex, ctx.options)
    THEN ScanFiles(acc, Tail(files), ctx)
    ELSE AfterFile(ScanFile(acc, Head(files).value, ctx), files, ctx)

\* the comparator of timeline.sort
timelineCompare(a, b) ==
    IF a.timestamp # None /\ b.timestamp # None THEN a.timestamp[1] - b.timestamp[1]
    ELSE IF a.timestamp # None THEN -1
    ELSE IF b.timestamp # None THEN 1
    ELSE localeCompare(a.id, b.id)

(* Array.prototype.sort is stable and the comparator is a consistent      *)
(* ordering: an event comes after the events the comparator puts before it *)
(* and after the earlier events it ties with.                               *)
SortRanks(timeline) ==
    {<<1 + Cardinality({j \in 1..Len(timeline) :
                LET c == timelineCompare(timeline[j], timeline[k])
                IN  c < 0 \/ (c = 0 /\ j < k)}), k>> : k \in 1..Len(timeline)}

PlaceByRank(timeline, ranks) ==
    [p \in 1..Len(timeline) |-> timeline[(CHOOSE r \in ranks : r[1] = p)[2]]]

\* mutant: the events stay in the order they were collected in
SortTimeline_Unsorted(timeline) == timeline

SortTimeline(timeline) == PlaceByRank(timeline, SortRanks(timeline))

EmptyResponse(req, query, workspace) ==
    [type              |-> "searchResult",
     requestId         |-> req.requestId,
     query             |-> query,
     results           |-> <<>>,
     matchedFiles      |-> <<>>,
     aggregations      |-> createAggregation,
     timeline          |-> <<>>,
     totalIndexedFiles |-> Len(workspace.files),
     error             |-> None]

\* mutant: contextLines is used as supplied
ScanContext_NoClamp(query, options) ==
    [query      |-> query,
     regex      |-> IF options.regex THEN CompileRegExp(query, options.caseSensitive)
                    ELSE None,
     options    |-> options,
     context    |-> options.contextLines,
     maxResults |-> Max(MinMaxResults, Min(options.maxResults, MaxMaxResults))]

\* the values runSearch fixes before the scan
ScanContext(query, options) ==
    [query      |-> query,
     regex      |-> IF options.regex THEN CompileRegExp(query, options.caseSensitive)
                    ELSE None,
     options    |-> options,
     context    |-> Max(0, Min(options.contextLines, MaxContextLines)),
     maxResults |-> Max(MinMaxResults, Min(options.maxResults, MaxMaxResults))]

EmptyScan ==
    [results |-> <<>>, matchedFiles |-> <<>>, fileMatchedTags |-> <<>>,
     aggregation |-> createAggregation, timeline |-> <<>>]

\* mutant: the sorted timeline is returned whole
ScanResponse_NoSlice(req, query, workspace, acc) ==
    [type              |-> "searchResult",
     requestId         |-> req.requestId,
     query             |-> query,
     results           |-> acc.results,
     matchedFiles      |-> acc.matchedFiles,
     aggregations      |-> acc.aggregation,
     timeline          |-> SortTimeline(acc.timeline) \o <<>>,
     totalIndexedFiles |-> Len(workspace.files),
     error             |-> None]

ScanResponse(req, query, workspace, acc) ==
    [type              |-> "searchResult",
     requestId         |-> req.requestId,
     query             |-> query,
     results           |-> acc.results,
     matchedFiles      |-> acc.matchedFiles,
     aggregations      |-> acc.aggregation,
     timeline          |-> SubSeq(SortTimeline(acc.timeline), 1,
                                  Min(Len(acc.timeline), TimelineLimit)),
     totalIndexedFiles |-> Len(workspace.files),
     error             |-> None]

\* mutant: a regex that does not compile is answered without the error
SearchTrimmed_NoError(workspace, req, query) ==
    IF query = <<>> /\ ~hasAnyFilter(req.options.filters)
    THEN EmptyResponse(req, query, workspace)
    ELSE IF req.options.regex /\ CompileRegExp(query, req.options.caseSensitive) = None
    THEN EmptyResponse(req, query, workspace)
    ELSE ScanResponse(req, query, workspace,
                      ScanFiles(EmptyScan, workspace.files,
                                ScanContext(query, req.options)))

SearchTrimmed(workspace, req, query) ==
    IF query = <<>> /\ ~hasAnyFilter(req.options.filters)
    THEN EmptyResponse(req, query, workspace)
    ELSE IF req.options.regex /\ CompileRegExp(query, req.options.caseSensitive) = None
    THEN [EmptyResponse(req, query, workspace) EXCEPT !.error = Some("invalid regex")]
    ELSE ScanResponse(req, query, workspace,
                      ScanFiles(EmptyScan, workspace.files,
                                ScanContext(query, req.options)))

\* the SearchResponse runSearch returns on the workspace state it is given
runSearch(workspace, req) == SearchTrimmed(workspace, req, trim(req.query))

----------------------------------------------------------------------------
(* Paths (src/lib/path.ts).  A Uint8Array is a sequence of numbers 0..255;  *)
(* offsets into it are 0-based, as in the source.                           *)

endsWith(s, p) == Len(p) <= Len(s) /\ SubSeq(s, Len(s) - Len(p) + 1, Len(s)) = p

startsWith(s, p) == Len(p) <= Len(s) /\ SubSeq(s, 1, Len(p)) = p

\* String.prototype.split on the one-character separator c
Split(s, c) ==
    LET seps == {i \in 1..Len(s) : s[i] = c}
        Cut(k) == IF k = 0 THEN 0
                  ELSE IF k > Cardinality(seps) THEN Len(s) + 1
                  ELSE CHOOSE p \in seps : Cardinality({q \in seps : q < p}) = k - 1
    IN  [k \in 1..(Cardinality(seps) + 1) |-> SubSeq(s, Cut(k - 1) + 1, Cut(k) - 1)]

RECURSIVE Join(_, _)
\* Array.prototype.join
Join(parts, sep) ==
    IF parts = <<>> THEN <<>>
    ELSE IF Len(parts) = 1 THEN parts[1]
    ELSE parts[1] \o sep \o Join(Tail(parts), sep)

NonEmpty(s) == s # <<>>

RECURSIVE SafeParts(_, _)
\* the loop of normalizePath: "." is dropped, ".." pops, the rest is pushed
SafeParts(parts, safe) ==
    IF parts = <<>> THEN safe
    ELSE IF Head(parts) = <<46>> \/ Head(parts) = <<>> THEN SafeParts(Tail(parts), safe)
    ELSE IF Head(parts) = <<46, 46>>
    THEN SafeParts(Tail(parts), SubSeq(safe, 1, Len(safe) - 1))
    ELSE SafeParts(Tail(parts), Append(safe, Head(parts)))

normalizePath(input) ==
    Join(SafeParts(SelectSeq(Split([i \in 1..Len(input) |->
                                       IF input[i] = 92 THEN 47 ELSE input[i]], 47),
                             NonEmpty),
                   <<>>),
         <<47>>)

splitPath(path) ==
    IF normalizePath(path) = <<>> THEN <<>> ELSE Split(normalizePath(path), 47)

\* joinPath(...parts)
joinPath(parts) == normalizePath(Join(SelectSeq(parts, NonEmpty), <<47>>))

getBaseName(path) ==
    IF splitPath(path) = <<>> THEN <<>> ELSE splitPath(path)[Len(splitPath(path))]

ARCHIVE_EXTENSIONS ==
    << <<46, 116, 97, 114, 46, 103, 122>>,     \* ".tar.gz"
       <<46, 116, 103, 122>>,                  \* ".tgz"
       <<46, 122, 105, 112>>,                  \* ".zip"
       <<46, 116, 97, 114>> >>                 \* ".tar"

\* the first extension of the list that the lower-cased name ends with
stripArchiveExtension(fileName) ==
    LET hits == {k \in 1..Len(ARCHIVE_EXTENSIONS) :
                    endsWith(toLowerCase(fileName), ARCHIVE_EXTENSIONS[k])}
    IN  IF hits = {} THEN fileName
        ELSE SubSeq(fileName, 1, Len(fileName) - Len(ARCHIVE_EXTENSIONS[Least(hits)]))

isArchiveFile(fileName) ==
    \E k \in 1..Len(ARCHIVE_EXTENSIONS) :
        endsWith(toLowerCase(fileName), ARCHIVE_EXTENSIONS[k])

isZipFile(fileName) == endsWith(toLowerCase(fileName), <<46, 122, 105, 112>>)

isTarGzFile(fileName) ==
    \/ endsWith(toLowerCase(fileName), <<46, 116, 97, 114, 46, 103, 122>>)
    \/ endsWith(toLowerCase(fileName), <<46, 116, 103, 122>>)

isTarFile(fileName) == endsWith(toLowerCase(fileName), <<46, 116, 97, 114>>)

----------------------------------------------------------------------------
(* Text detection (src/lib/text.ts) *)

LOG_FILE_EXTENSIONS ==
    { <<108, 111, 103>>, <<116, 120, 116>>, <<111, 117, 116>>, <<101, 114, 114>>,
      <<106, 115, 111, 110>>, <<121, 97, 109, 108>>, <<121, 109, 108>>,
      <<120, 109, 108>>, <<99, 115, 118>>, <<99, 111, 110, 102>>, <<99, 102, 103>>,
      <<105, 110, 105>>, <<116, 114, 97, 99, 101>>, <<109, 100>> }
    \* log txt out err json yaml yml xml csv conf cfg ini trace md

TextSample == 2048

isLikelyText(bytes, name) ==
    LET ext == toLowerCase(Split(name, 46)[Len(Split(name, 46))])
        sampleLength == Min(Len(bytes), TextSample)
    IN  \/ ext \in LOG_FILE_EXTENSIONS
        \/ sampleLength = 0
        \/ /\ \A i \in 1..sampleLength : bytes[i] # 0
           /\ 100 * Cardinality({i \in 1..sampleLength :
                                    bytes[i] < 9 \/ (bytes[i] > 13 /\ bytes[i] < 32)})
                 < 8 * sampleLength

----------------------------------------------------------------------------
(* Archive decoding (src/lib/archive.ts) *)

\* the index a relative offset of subarray and slice resolves to
Clamp(x, len) == IF x < 0 THEN Max(len + x, 0) ELSE Min(x, len)

\* TypedArray.prototype.subarray(begin, end)
subarray(bytes, begin, end) ==
    SubSeq(bytes, Clamp(begin, Len(bytes)) + 1, Clamp(end, Len(bytes)))

readAscii(view, start, length) ==
    LET end   == Min(start + length, Len(view))
        zeros == {i \in start..(end - 1) : view[i + 1] = 0}
    IN  trim(SubSeq(view, start + 1, IF zeros = {} THEN end ELSE Least(zeros)))

IsOctal(c) == c >= 48 /\ c <= 55

RECURSIVE OctalValue(_)
OctalValue(digits) ==
    IF digits = <<>> THEN 0
    ELSE 8 * OctalValue(SubSeq(digits, 1, Len(digits) - 1)) + (digits[Len(digits)] - 48)

(* Number.parseInt(s, 8) || 0 on a trimmed string: an optional sign, then   *)
(* the longest run of octal digits; NaN when that run is empty.             *)
ParseOctalOrZero(s) ==
    LET signed == s # <<>> /\ s[1] \in {43, 45}
        body   == IF signed THEN Tail(s) ELSE s
        stops  == {i \in 1..Len(body) : ~IsOctal(body[i])}
        digits == SubSeq(body, 1, IF stops = {} THEN Len(body) ELSE Least(stops) - 1)
    IN  IF signed /\ s[1] = 45 THEN 0 - OctalValue(digits) ELSE OctalValue(digits)

parseTarSize(value) ==
    IF value = <<>> THEN 0
    ELSE LET Kept(c) == c # 0
         IN  IF trim(SelectSeq(value, Kept)) = <<>> THEN 0
             ELSE ParseOctalOrZero(trim(SelectSeq(value, Kept)))

\* the key and value of one line of a PAX record, None when the line is skipped
PaxAttr(line) ==
    LET trimmed == trim(line)
        spaces  == {i \in 1..Len(trimmed) : trimmed[i] = 32}
        payload == SubSeq(trimmed, Least(spaces) + 1, Len(trimmed))
        equals  == {i \in 1..Len(payload) : payload[i] = 61}
    IN  IF trimmed = <<>> \/ spaces = {} THEN None
        ELSE IF equals = {} THEN None
        ELSE Some([key   |-> SubSeq(payload, 1, Least(equals) - 1),
                   value |-> SubSeq(payload, Least(equals) + 1, Len(payload))])

(* parsePax(data).path: the value of the last line whose key is "path",     *)
(* None when no line sets it.  The bytes are decoded as ASCII.              *)
PaxPath(data) ==
    LET lines == Split(data, 10)
        hits  == {k \in 1..Len(lines) :
                     PaxAttr(lines[k]) # None
                         /\ PaxAttr(lines[k])[1].key = <<112, 97, 116, 104>>}
    IN  IF hits = {} THEN None
        ELSE Some(PaxAttr(lines[CHOOSE k \in hits : \A j \in hits : j <= k])[1].value)

BlockSize == 512

\* Math.ceil(size / 512)
CeilBlocks(size) == 0 - ((0 - size) \div BlockSize)

ArchiveEntry(path, bytes, kind) == [path |-> path, bytes |-> bytes, kind |-> kind]

\* the decoder returns the value
Decoded(value) == [outcome |-> "returns", value |-> value]

\* the decoder throws
Throws == [outcome |-> "throws", value |-> <<>>]

\* the decoder never returns: its loop comes back to a point it has been at
Hangs == [outcome |-> "hangs", value |-> <<>>]

\* a turn that keeps the pending name after the entry that has taken it
TarTurn_KeepPending(bytes, header, offset, pendingPath, entries) ==
    LET name      == readAscii(header, 0, 100)
        typeFlag  == IF Len(header) > 156 THEN header[157] ELSE 0
        prefix    == readAscii(header, 345, 155)
        baseName  == IF prefix # <<>> THEN prefix \o <<47>> \o name ELSE name
        size      == parseTarSize(readAscii(header, 124, 12))
        contentStart == offset + BlockSize
        content   == subarray(bytes, contentStart, Min(contentStart + size, Len(bytes)))
        resolved  == normalizePath(IF pendingPath # None THEN pendingPath[1] ELSE baseName)
    IN  [offset      |-> contentStart + CeilBlocks(size) * BlockSize,
         pendingPath |-> IF typeFlag = 76 THEN Some(readAscii(content, 0, Len(content)))
                         ELSE IF typeFlag = 120
                         THEN IF PaxPath(content) # None /\ PaxPath(content)[1] # <<>>
                              THEN PaxPath(content) ELSE pendingPath
                         ELSE pendingPath,
         entries     |-> IF typeFlag \in {76, 120} \/ resolved = <<>> THEN entries
                         ELSE IF typeFlag = 53
                         THEN Append(entries, ArchiveEntry(resolved, <<>>, "dir"))
                         ELSE Append(entries, ArchiveEntry(resolved, content, "file"))]

(* One turn of the loop of parseTarEntries for a header that is not empty.  *)
(* It yields the loop variables of the next turn.                           *)
TarTurn(bytes, header, offset, pendingPath, entries) ==
    LET name      == readAscii(header, 0, 100)
        sizeRaw   == readAscii(header, 124, 12)
        typeFlag  == IF Len(header) > 156 THEN header[157] ELSE 0
        prefix    == readAscii(header, 345, 155)
        baseName  == IF prefix # <<>> THEN prefix \o <<47>> \o name ELSE name
        size      == parseTarSize(sizeRaw)
        contentStart == offset + BlockSize
        content   == subarray(bytes, contentStart, Min(contentStart + size, Len(bytes)))
        resolved  == normalizePath(IF pendingPath # None THEN pendingPath[1] ELSE baseName)
    IN  [offset      |-> contentStart + CeilBlocks(size) * BlockSize,
         pendingPath |-> IF typeFlag = 76 THEN Some(readAscii(content, 0, Len(content)))
                         ELSE IF typeFlag = 120
                         THEN IF PaxPath(content) # None /\ PaxPath(content)[1] # <<>>
                              THEN PaxPath(content) ELSE pendingPath
                         ELSE None,
         entries     |-> IF typeFlag \in {76, 120} \/ resolved = <<>> THEN entries
                         ELSE IF typeFlag = 53
                         THEN Append(entries, ArchiveEntry(resolved, <<>>, "dir"))
                         ELSE Append(entries, ArchiveEntry(resolved, content, "file"))]

(* The while loop of parseTarEntries from the loop variables in at.  A turn *)
(* reads nothing but bytes, offset and pendingPath: when it starts with an  *)
(* offset and a pendingPath that an earlier turn started with, the loop     *)
(* repeats itself for ever.                                                 *)
RECURSIVE TarLoop(_, _, _)
TarLoop(bytes, at, seen) ==
    IF ~(at.offset + BlockSize <= Len(bytes)) THEN Decoded(at.entries)
    ELSE IF \A i \in 1..Len(subarray(bytes, at.offset, at.offset + BlockSize)) :
                subarray(bytes, at.offset, at.offset + BlockSize)[i] = 0
    THEN Decoded(at.entries)
    ELSE IF <<at.offset, at.pendingPath>> \in seen THEN Hangs
    ELSE TarLoop(bytes,
                 TarTurn(bytes, subarray(bytes, at.offset, at.offset + BlockSize),
                         at.offset, at.pendingPath, at.entries),
                 seen \cup {<<at.offset, at.pendingPath>>})

parseTarEntries(bytes) ==
    TarLoop(bytes, [offset |-> 0, pendingPath |-> None, entries |-> <<>>], {})

(* parseTarEntries as it runs: tar holds the bytes it was called with, the  *)
(* variables of its loop, and the records the bytes were written from.  It  *)
(* is at "while" before a test of the loop and "return" after the loop.     *)

\* parseTarEntries(bytes) is called, for the bytes of the records of stream
ParseTarCall(stream, bytes) ==
    /\ tar = None
    /\ tar' = Some([stream |-> stream, bytes |-> bytes, at |-> "while",
                    offset |-> 0, pendingPath |-> None, entries |-> <<>>])
    /\ UNCHANGED <<upload, calls, output, extraction, workerVars, pageVars>>

\* the header block the loop reads at offset
HeaderAt(bytes, offset) == subarray(bytes, offset, offset + BlockSize)

\* the test of the while loop and of isEmpty
LoopGoes(bytes, offset) ==
    /\ offset + BlockSize <= Len(bytes)
    /\ \E i \in 1..Len(HeaderAt(bytes, offset)) : HeaderAt(bytes, offset)[i] # 0

\* the loop variables after the turn of the loop that starts at run
NextTurn(run) ==
    TarTurn(run.bytes, HeaderAt(run.bytes, run.offset), run.offset, run.pendingPath,
            run.entries)

\* one turn of the loop, or its end
ParseTarTurn(run, next) ==
    /\ run.at = "while"
    /\ tar' = IF LoopGoes(run.bytes, run.offset)
              THEN Some([run EXCEPT !.offset = next.offset,
                                    !.pendingPath = next.pendingPath,
                                    !.entries = next.entries])
              ELSE Some([run EXCEPT !.at = "return"])
    /\ UNCHANGED <<upload, calls, output, extraction, workerVars, pageVars>>

hasZipSignature(bytes) ==
    /\ Len(bytes) > 3
    /\ bytes[1] = 80
    /\ bytes[2] = 75
    /\ bytes[3] \in {3, 5, 7}
    /\ bytes[4] \in {4, 6, 8}

hasGzipSignature(bytes) == Len(bytes) > 2 /\ bytes[1] = 31 /\ bytes[2] = 139

hasTarSignature(bytes) ==
    IF Len(bytes) < 265 THEN FALSE
    ELSE includes(subarray(bytes, 257, 262), <<117, 115, 116, 97, 114>>)   \* "ustar"

(* fflate, the codec behind unzipSync and gunzipSync, is not part of the    *)
(* repository.  It is modelled by what it does on archives whose members    *)
(* are stored without compression, and on bytes that are no archive.        *)

\* a byte read beyond the array is undefined, which the codec's arithmetic takes as 0
U8(d, o) == IF o >= 0 /\ o < Len(d) THEN d[o + 1] ELSE 0

\* little-endian reads
b2(d, o) == U8(d, o) + 256 * U8(d, o + 1)

b4(d, o) == b2(d, o) + 65536 * b2(d, o + 2)

\* the offsets at which an end-of-central-directory record can start
ZipEnds(data) ==
    {e \in Max(0, Len(data) - 65558)..(Len(data) - 22) :
        subarray(data, e, e + 4) = <<80, 75, 5, 6>>}

\* Object.entries order of the members read so far: a repeated name keeps its place
PutMember(files, name, data) ==
    IF \E k \in 1..Len(files) : files[k].name = name
    THEN [k \in 1..Len(files) |->
             IF files[k].name = name THEN [name |-> name, data |-> data] ELSE files[k]]
    ELSE Append(files, [name |-> name, data |-> data])

\* the members of the central directory from the header at offset o on, left of them
RECURSIVE ZipMembers(_, _, _, _)
ZipMembers(data, o, left, files) ==
    IF left = 0 THEN Decoded(files)
    ELSE IF b2(data, o + 10) # 0 THEN Throws
    ELSE ZipMembers(data,
                    o + 46 + b2(data, o + 28) + b2(data, o + 30) + b2(data, o + 32),
                    left - 1,
                    PutMember(files,
                              subarray(data, o + 46, o + 46 + b2(data, o + 28)),
                              subarray(data,
                                       b4(data, o + 42) + 30
                                           + b2(data, b4(data, o + 42) + 26)
                                           + b2(data, b4(data, o + 42) + 28),
                                       b4(data, o + 42) + 30
                                           + b2(data, b4(data, o + 42) + 26)
                                           + b2(data, b4(data, o + 42) + 28)
                                           + b4(data, o + 20))))

\* the record the codec finds: the last one that fits
ZipFrom(data, e) == ZipMembers(data, b4(data, e + 16), b2(data, e + 8), <<>>)

\* unzipSync(bytes): the stored members by name, or a throw
unzipSync(data) ==
    IF ZipEnds(data) = {} THEN Throws
    ELSE ZipFrom(data, CHOOSE e \in ZipEnds(data) : \A f \in ZipEnds(data) : f <= e)

\* the stored blocks of a deflate stream from offset pos on
RECURSIVE StoredBlocks(_, _, _)
StoredBlocks(stream, pos, out) ==
    IF pos + 5 > Len(stream) \/ (U8(stream, pos) \div 2) % 4 # 0 THEN Throws
    ELSE IF pos + 5 + b2(stream, pos + 1) > Len(stream) THEN Throws
    ELSE IF U8(stream, pos) % 2 = 1
    THEN Decoded(out \o subarray(stream, pos + 5, pos + 5 + b2(stream, pos + 1)))
    ELSE StoredBlocks(stream, pos + 5 + b2(stream, pos + 1),
                      out \o subarray(stream, pos + 5, pos + 5 + b2(stream, pos + 1)))

GzipHeaderSize == 2 + 1 + 1 + 4 + 1 + 1    \* magic, CM, FLG, MTIME, XFL, OS

GzipTrailerSize == 4 + 4                   \* CRC32, ISIZE

\* gunzipSync(bytes) for a header without optional fields: the data, or a throw
gunzipSync(data) ==
    IF U8(data, 0) # 31 \/ U8(data, 1) # 139 \/ U8(data, 2) # 8 THEN Throws
    ELSE IF U8(data, 3) # 0 \/ Len(data) < GzipHeaderSize + GzipTrailerSize THEN Throws
    ELSE StoredBlocks(subarray(data, GzipHeaderSize, 0 - GzipTrailerSize), 0, <<>>)

\* the ArchiveEntry list parseArchiveEntries makes of the zip members
ZipEntries(files) ==
    [k \in 1..Len(files) |->
        ArchiveEntry(normalizePath(files[k].name), files[k].data,
                     IF endsWith(files[k].name, <<47>>) THEN "dir" ELSE "file")]

\* after gunzipSync: the tar entries of the data, or the throw
TarEntriesOf(unzipped) ==
    IF unzipped.outcome = "throws" THEN Throws ELSE parseTarEntries(unzipped.value)

\* after unzipSync
ZipEntriesOf(unzipped) ==
    IF unzipped.outcome = "throws" THEN Throws ELSE Decoded(ZipEntries(unzipped.value))

parseArchiveEntries(fileName, bytes) ==
    IF isZipFile(getBaseName(fileName)) \/ hasZipSignature(bytes)
    THEN ZipEntriesOf(unzipSync(bytes))
    ELSE IF isTarGzFile(getBaseName(fileName)) \/ hasGzipSignature(bytes)
    THEN TarEntriesOf(gunzipSync(bytes))
    ELSE IF isTarFile(getBaseName(fileName)) \/ hasTarSignature(bytes)
    THEN parseTarEntries(bytes)
    ELSE Throws

MAX_DEPTH == 12

isIgnorableMetadataPath(entryPath) ==
    \/ normalizePath(entryPath) = <<>>
    \/ startsWith(normalizePath(entryPath), <<95, 95, 77, 65, 67, 79, 83, 88, 47>>)
                                                                   \* "__MACOSX/"
    \/ startsWith(getBaseName(normalizePath(entryPath)), <<46, 95>>)       \* "._"
    \/ getBaseName(normalizePath(entryPath))
           = <<46, 68, 83, 95, 83, 116, 111, 114, 101>>             \* ".DS_Store"

ExtractedFile(path, bytes, name) ==
    [path |-> path, size |-> Len(bytes), bytes |-> bytes,
     textLike |-> isLikelyText(bytes, name)]

----------------------------------------------------------------------------
(* The archives given to extractArchiveRecursively: zip and gzip files with *)
(* stored members, tar streams, and bytes that are no archive.              *)

le16(n) == <<n % 256, (n \div 256) % 256>>

le32(n) == le16(n % 65536) \o le16(n \div 65536)

Zeros(n) == [i \in 1..n |-> 0]

Member(name, data) == [name |-> name, data |-> data]

\* a local file header of a stored member, and the member's bytes
ZipLocal(m) ==
    <<80, 75, 3, 4, 20, 0, 0, 0, 0, 0>> \o Zeros(8)
        \o le32(Len(m.data)) \o le32(Len(m.data)) \o le16(Len(m.name)) \o le16(0)
        \o m.name \o m.data

\* the central directory header of the member whose local header is at offset
ZipCentral(m, offset) ==
    <<80, 75, 1, 2, 20, 0, 20, 0, 0, 0, 0, 0>> \o Zeros(8)
        \o le32(Len(m.data)) \o le32(Len(m.data)) \o le16(Len(m.name))
        \o Zeros(12) \o le32(offset) \o m.name

ZipEnd(count, size, offset) ==
    <<80, 75, 5, 6, 0, 0, 0, 0>> \o le16(count) \o le16(count)
        \o le32(size) \o le32(offset) \o le16(0)

ZipOf(locals, centrals) ==
    Flatten(locals) \o Flatten(centrals)
        \o ZipEnd(Len(locals), Len(Flatten(centrals)), Len(Flatten(locals)))

\* a zip file whose members are stored
ZipStored(members) ==
    ZipOf([k \in 1..Len(members) |-> ZipLocal(members[k])],
          [k \in 1..Len(members) |->
              ZipCentral(members[k],
                         Len(Flatten([j \in 1..(k - 1) |-> ZipLocal(members[j])])))])

\* a gzip file of one stored block
GzipStored(data) ==
    <<31, 139, 8, 0, 0, 0, 0, 0, 0, 3>>
        \o <<1>> \o le16(Len(data)) \o le16(65535 - Len(data)) \o data
        \o Zeros(4) \o le32(Len(data))

RECURSIVE OctalText(_)
OctalText(n) == IF n < 8 THEN <<48 + n>> ELSE OctalText(n \div 8) \o <<48 + (n % 8)>>

\* a ustar header block with the given text in its size field
TarHeader(name, sizeText, typeFlag) ==
    [i \in 1..BlockSize |->
        IF i <= Len(name) THEN name[i]
        ELSE IF i > 124 /\ i <= 124 + Len(sizeText) THEN sizeText[i - 124]
        ELSE IF i = 157 THEN typeFlag
        ELSE IF i > 257 /\ i <= 262 THEN <<117, 115, 116, 97, 114>>[i - 257]
        ELSE 0]

\* a file member: its header, its bytes, and the padding to a whole block
TarFile(m) ==
    TarHeader(m.name, OctalText(Len(m.data)), 48) \o m.data
        \o Zeros((BlockSize - (Len(m.data) % BlockSize)) % BlockSize)

TarStream(members) == Flatten([k \in 1..Len(members) |-> TarFile(members[k])])

ArchiveKinds == <<"zip", "tar", "tgz">>

Pack(kind, members) ==
    IF kind = "zip" THEN ZipStored(members)
    ELSE IF kind = "tar" THEN TarStream(members)
    ELSE GzipStored(TarStream(members))

NestedName(kind) ==
    IF kind = "zip" THEN <<110, 46, 122, 105, 112>>          \* "n.zip"
    ELSE IF kind = "tar" THEN <<110, 46, 116, 97, 114>>      \* "n.tar"
    ELSE <<110, 46, 116, 103, 122>>                          \* "n.tgz"

UploadName(kind) ==
    IF kind = "zip" THEN <<117, 112, 46, 122, 105, 112>>     \* "up.zip"
    ELSE IF kind = "tar" THEN <<117, 112, 46, 116, 97, 114>> \* "up.tar"
    ELSE <<117, 112, 46, 116, 103, 122>>                     \* "up.tgz"

Sibling == Member(<<115, 46, 108, 111, 103>>, <<111, 107>>)  \* "s.log": "ok"

\* the kind of the container at level k of a chain: one kind, or the three in turn
KindAt(k, mixed) == IF mixed THEN ArchiveKinds[(k % 3) + 1] ELSE "zip"

(* A chain of k containers, each holding the next one and a sibling file;   *)
(* the innermost holds "x.log" with the bytes "hi".                         *)
RECURSIVE Chain(_, _)
Chain(k, mixed) ==
    Pack(KindAt(k, mixed),
         << IF k = 1 THEN Member(<<120, 46, 108, 111, 103>>, <<104, 105>>)
            ELSE Member(NestedName(KindAt(k - 1, mixed)), Chain(k - 1, mixed)),
            Sibling >>)

\* the chains are up to ExtraDepth levels deeper than walkArchive decodes
ExtraDepth == 1

ChainUploads ==
    {[fileName |-> UploadName(KindAt(k, mixed)), bytes |-> Chain(k, mixed)] :
        k \in {1, 2} \cup ((MAX_DEPTH + 1)..(MAX_DEPTH + 1 + ExtraDepth)),
        mixed \in BOOLEAN}

NotAnArchive ==
    <<110, 111, 116, 32, 97, 110, 32, 97, 114, 99, 104, 105, 118, 101>>
                                                             \* "not an archive"

\* entries that carry an archive extension and hold no archive of that kind
BrokenMembers ==
    { Member(<<98, 97, 100, 46, 122, 105, 112>>, NotAnArchive),            \* "bad.zip"
      Member(<<66, 97, 100, 46, 90, 73, 80>>, Zeros(30)),                  \* "Bad.ZIP"
      Member(<<98, 97, 100, 46, 116, 103, 122>>, NotAnArchive),            \* "bad.tgz"
      Member(<<98, 97, 100, 46, 116, 97, 114, 46, 103, 122>>,
             <<31, 139, 8, 0, 1, 2>>),                                     \* "bad.tar.gz"
      Member(<<119, 114, 97, 112, 46, 116, 103, 122>>,
             GzipStored(NotAnArchive)),                                    \* "wrap.tgz"
      Member(<<115, 104, 111, 114, 116, 46, 116, 97, 114>>, NotAnArchive), \* "short.tar"
      Member(<<106, 117, 110, 107, 46, 116, 97, 114>>,
             [i \in 1..(BlockSize + 8) |-> 65]),                           \* "junk.tar"
      Member(<<112, 97, 114, 116, 46, 116, 97, 114>>,
             TarStream(<<Member(<<102>>, <<104, 105>>)>>)
                 \o SubSeq(TarHeader(<<103>>, <<50>>, 48), 1, 100)) }      \* "part.tar"

BrokenUpload(kind, m) ==
    [fileName |-> UploadName(kind), bytes |-> Pack(kind, <<m, Sibling>>)]

BrokenUploads == {BrokenUpload(kind, m) : kind \in {"zip", "tar"}, m \in BrokenMembers}

\* a long-name header ('L') whose size field reads "-1000", and the block
\* after it
StallTar == TarHeader(<<102>>, <<45, 49, 48, 48, 48>>, 76) \o Zeros(BlockSize)

StallUploads ==
    { [fileName |-> <<115, 116, 97, 108, 108, 46, 116, 97, 114>>,         \* "stall.tar"
       bytes |-> StallTar],
      BrokenUpload("zip", Member(<<115, 116, 97, 108, 108, 46, 116, 97, 114>>, StallTar)) }

Bytes_hi == <<104, 105>>                                     \* "hi"

\* the entries of a nested container with metadata and parent references
InnerMembers ==
    << Member(<<95, 95, 77, 65, 67, 79, 83, 88, 47, 105, 46, 108, 111, 103>>,
              Bytes_hi),                                              \* "__MACOSX/i.log"
       Member(<<111, 47, 46, 95, 105>>, Bytes_hi),                    \* "o/._i"
       Member(<<113, 47, 46, 46, 47, 46, 46, 47, 122, 46, 108, 111, 103>>,
              Bytes_hi),                                              \* "q/../../z.log"
       Member(<<107, 46, 108, 111, 103>>, Bytes_hi) >>                \* "k.log"

(* The entries of a container as archivers and hostile senders write them:  *)
(* macOS metadata at the top and inside a folder, parent references, an     *)
(* absolute path, a backslash, doubled separators, and nested containers    *)
(* in a folder, under a name that is all extension, and among the metadata. *)
OddMembers(kind) ==
    << Member(<<95, 95, 77, 65, 67, 79, 83, 88, 47, 114, 46, 108, 111, 103>>,
              Bytes_hi),                                              \* "__MACOSX/r.log"
       Member(<<100, 47, 95, 95, 77, 65, 67, 79, 83, 88, 47, 109, 46, 108, 111, 103>>,
              Bytes_hi),                                              \* "d/__MACOSX/m.log"
       Member(<<100, 47, 46, 95, 114>>, Bytes_hi),                    \* "d/._r"
       Member(<<46, 68, 83, 95, 83, 116, 111, 114, 101>>, Bytes_hi),  \* ".DS_Store"
       Member(<<100, 47, 46, 68, 83, 95, 83, 116, 111, 114, 101>>,
              Bytes_hi),                                              \* "d/.DS_Store"
       Member(<<46, 46, 47, 117, 112, 46, 108, 111, 103>>, Bytes_hi), \* "../up.log"
       Member(<<47, 97, 98, 115, 47, 97, 46, 108, 111, 103>>,
              Bytes_hi),                                              \* "/abs/a.log"
       Member(<<119, 92, 98, 46, 108, 111, 103>>, Bytes_hi),          \* "w\b.log"
       Member(<<101, 47, 47, 46, 47, 102, 46, 108, 111, 103>>,
              Bytes_hi),                                              \* "e//./f.log"
       Member(<<100, 47, 105, 110, 46, 116, 97, 114, 46, 103, 122>>,
              Pack("tgz", InnerMembers)),                             \* "d/in.tar.gz"
       Member(<<46, 46, 46, 122, 105, 112>>,
              Pack("zip", <<Member(<<121, 46, 108, 111, 103>>, Bytes_hi)>>)),  \* "...zip"
       Member(<<46, 95, 104, 46, 122, 105, 112>>,
              Pack("zip", <<Member(<<104, 46, 108, 111, 103>>, Bytes_hi)>>)),  \* "._h.zip"
       Member(NestedName(kind), Pack(kind, InnerMembers)) >>

OddUploads ==
    {[fileName |-> UploadName(kind), bytes |-> Pack(kind, OddMembers(kind))] :
        kind \in {"zip", "tar", "tgz"}}

\* files that are no archive, under a name with and without an extension
PlainUploads ==
    { [fileName |-> <<117, 112, 46, 122, 105, 112>>, bytes |-> NotAnArchive],   \* "up.zip"
      [fileName |-> <<100, 97, 116, 97, 46, 98, 105, 110>>,                     \* "data.bin"
       bytes |-> NotAnArchive],
      [fileName |-> <<100, 97, 116, 97, 46, 98, 105, 110>>,
       bytes |-> Chain(1, FALSE)] }

\* archives under the extension of another format
MisnamedUploads ==
    { [fileName |-> UploadName("tar"), bytes |-> Chain(1, FALSE)],
      [fileName |-> UploadName("tgz"), bytes |-> Chain(1, FALSE)],
      [fileName |-> UploadName("tar"),
       bytes |-> GzipStored(TarStream(<<Member(<<120, 46, 108, 111, 103>>, Bytes_hi)>>))],
      [fileName |-> UploadName("zip"),
       bytes |-> TarStream(<<Member(<<120, 46, 108, 111, 103>>, Bytes_hi)>>)] }

ArchiveUploads ==
    ChainUploads \cup BrokenUploads \cup StallUploads \cup PlainUploads \cup OddUploads
        \cup MisnamedUploads

----------------------------------------------------------------------------
(* extractArchiveRecursively as it runs: calls is the stack of the          *)
(* walkArchive invocations, the innermost last; a frame holds the           *)
(* arguments, the entries once parseArchiveEntries has returned them, and   *)
(* the position of the for loop.  output is the list the invocations push   *)
(* to.  extraction is "idle" before the first call, "running" during a      *)
(* call, "returned" or "threw" after it; upload holds the arguments.        *)

Frame(fileName, bytes, basePath, depth) ==
    [fileName |-> fileName, bytes |-> bytes, basePath |-> basePath, depth |-> depth,
     entries |-> None, next |-> 0]

\* the stack after the innermost invocation is left: its caller goes on
\* with the next entry
Resumed(stack) ==
    IF Len(stack) <= 1 THEN <<>>
    ELSE [k \in 1..(Len(stack) - 1) |->
             IF k = Len(stack) - 1 THEN [stack[k] EXCEPT !.next = @ + 1] ELSE stack[k]]

\* the position of the for loop moves to the next entry
Continued(stack) == [stack EXCEPT ![Len(stack)].next = @ + 1]

StatusAfter(stack) == IF Len(stack) <= 1 THEN "returned" ELSE "running"

\* the ExtractedFile pushed at the end of the loop body for the entry at frame.next
\* a leaf under basePath and its entry path put together as they are
EntryLeaf_Unjoined(frame) ==
    ExtractedFile(frame.basePath \o <<47>> \o normalizePath(frame.entries[1][frame.next].path),
                  frame.entries[1][frame.next].bytes,
                  getBaseName(normalizePath(frame.entries[1][frame.next].path)))

\* a leaf under its entry path alone, without the folders of the layers
EntryLeaf_Flat(frame) ==
    ExtractedFile(normalizePath(frame.entries[1][frame.next].path),
                  frame.entries[1][frame.next].bytes,
                  getBaseName(normalizePath(frame.entries[1][frame.next].path)))

EntryLeaf(frame) ==
    ExtractedFile(joinPath(<<frame.basePath, normalizePath(frame.entries[1][frame.next].path)>>),
                  frame.entries[1][frame.next].bytes,
                  getBaseName(normalizePath(frame.entries[1][frame.next].path)))

\* depth > MAX_DEPTH: one leaf with the bytes as they are, and return
LeafAtCap(frame) ==
    /\ output' = Append(output,
                        ExtractedFile(joinPath(<<frame.basePath, getBaseName(frame.fileName)>>),
                                      frame.bytes,
                                      joinPath(<<frame.basePath, getBaseName(frame.fileName)>>)))
    /\ calls' = Resumed(calls)
    /\ extraction' = StatusAfter(calls)

(* parseArchiveEntries has run.  A throw leaves the invocation: the catch   *)
(* of the caller falls through to the push of the entry as a leaf, and      *)
(* without a caller extractArchiveRecursively throws.  A decoder that       *)
(* never returns leaves no step to take.                                    *)
AfterDecode(frame, parsed) ==
    /\ parsed.outcome # "hangs"
    /\ IF parsed.outcome = "throws"
       THEN IF Len(calls) = 1
            THEN /\ calls' = <<>>
                 /\ output' = <<>>
                 /\ extraction' = "threw"
            ELSE /\ calls' = Resumed(calls)
                 /\ output' = Append(output, EntryLeaf(calls[Len(calls) - 1]))
                 /\ extraction' = extraction
       ELSE /\ calls' = [calls EXCEPT ![Len(calls)].entries = Some(parsed.value),
                                      ![Len(calls)].next = 1]
            /\ UNCHANGED <<output, extraction>>

\* the source of upload is given to extractArchiveRecursively
ExtractCall(fileName, bytes) ==
    /\ upload' = Some([fileName |-> fileName, bytes |-> bytes])
    /\ calls' = <<Frame(fileName, bytes, <<>>, 0)>>
    /\ output' = <<>>
    /\ extraction' = "running"
    /\ UNCHANGED tar

Extract(fileName, bytes) ==
    /\ extraction # "running"
    /\ ExtractCall(fileName, bytes)
    /\ UNCHANGED <<workerVars, pageVars>>

\* walkArchive from its entry to the start of the for loop
WalkEnter ==
    /\ calls # <<>>
    /\ calls[Len(calls)].entries = None
    /\ IF calls[Len(calls)].depth > MAX_DEPTH
       THEN LeafAtCap(calls[Len(calls)])
       ELSE AfterDecode(calls[Len(calls)],
                        parseArchiveEntries(calls[Len(calls)].fileName,
                                            calls[Len(calls)].bytes))
    /\ UNCHANGED <<upload, tar, workerVars, pageVars>>

\* the loop body for an entry: skipped, entered as a nested archive, or pushed
EntryStep(frame, entry, entryPath) ==
    IF entryPath = <<>> \/ entry.kind = "dir" \/ isIgnorableMetadataPath(entryPath)
    THEN /\ calls' = Continued(calls)
         /\ output' = output
    ELSE IF isArchiveFile(getBaseName(entryPath))
    THEN /\ calls' = Append(calls,
                            Frame(getBaseName(entryPath), entry.bytes,
                                  stripArchiveExtension(joinPath(<<frame.basePath, entryPath>>)),
                                  frame.depth + 1))
         /\ output' = output
    ELSE /\ calls' = Continued(calls)
         /\ output' = Append(output, EntryLeaf(frame))

\* one turn of the for loop of the innermost invocation
WalkEntry ==
    /\ calls # <<>>
    /\ calls[Len(calls)].entries # None
    /\ calls[Len(calls)].next <= Len(calls[Len(calls)].entries[1])
    /\ EntryStep(calls[Len(calls)],
                 calls[Len(calls)].entries[1][calls[Len(calls)].next],
                 normalizePath(calls[Len(calls)].entries[1][calls[Len(calls)].next].path))
    /\ UNCHANGED <<upload, tar, extraction, workerVars, pageVars>>

\* the for loop is over: walkArchive returns
WalkReturn ==
    /\ calls # <<>>
    /\ calls[Len(calls)].entries # None
    /\ calls[Len(calls)].next > Len(calls[Len(calls)].entries[1])
    /\ calls' = Resumed(calls)
    /\ extraction' = StatusAfter(calls)
    /\ UNCHANGED <<upload, tar, output, workerVars, pageVars>>

----------------------------------------------------------------------------
(* The worker: self.onmessage takes one request, runs its handler to the    *)
(* end and posts the response.  request is the message being answered,      *)
(* outbox the posted responses, the oldest first, until the page's          *)
(* onmessage has taken them; inbox is the requests posted to the worker     *)
(* that it has not taken yet, the oldest first.                             *)

\* request.type === "indexDelta": ws is the workspace applyIndexDelta leaves
PostIndexStatus(req, ws) ==
    /\ workspaceIndexes' = WithWorkspace(workspaceIndexes, req.workspaceId, ws)
    /\ outbox' = Append(outbox, DeltaStatus(ws, req))
    /\ request' = Some(req)
    /\ UNCHANGED archiveVars

\* the worker is given req when the response before it has been taken
HandleIndexDelta(req) ==
    /\ outbox = None
    /\ PostIndexStatus(req, DeltaWorkspace(workspaceIndexes, req))
    /\ UNCHANGED pageVars

\* request.type === "search": ws is the workspace ensureWorkspace returns
PostSearchResult(req, ws) ==
    /\ workspaceIndexes' = WithWorkspace(workspaceIndexes, req.workspaceId, ws)
    /\ outbox' = Append(outbox, runSearch(ws, req))
    /\ request' = Some(req)
    /\ UNCHANGED archiveVars

HandleSearch(req) ==
    /\ outbox = None
    /\ PostSearchResult(req, ensureWorkspace(workspaceIndexes, req.workspaceId))
    /\ UNCHANGED pageVars

\* the page's worker.onmessage takes the oldest posted response
Deliver ==
    /\ outbox # None
    /\ outbox' = Tail(outbox)
    /\ request' = None
    /\ UNCHANGED <<workspaceIndexes, archiveVars, pageVars>>

NoFilters ==
    [pod |-> None, container |-> None, namespace |-> None,
     level |-> None, timeFrom |-> None, timeTo |-> None]

SearchOptions(regex, caseSensitive, contextLines, maxResults, filters) ==
    [regex |-> regex, caseSensitive |-> caseSensitive,
     contextLines |-> contextLines, maxResults |-> maxResults, filters |-> filters]

SearchRequest(requestId, workspaceId, query, options) ==
    [type |-> "search", requestId |-> requestId, workspaceId |-> workspaceId,
     query |-> query, options |-> options]

\* mutant: the worker is handed the request posted last
NextRequest_Latest(queue) == queue[Len(queue)]

\* the message event the worker is handed: the oldest request of the queue
NextRequest(queue) == Head(queue)

\* self.onmessage on req, run to its end
Answer(req) ==
    IF req.type = "indexDelta"
    THEN PostIndexStatus(req, DeltaWorkspace(workspaceIndexes, req))
    ELSE PostSearchResult(req, ensureWorkspace(workspaceIndexes, req.workspaceId))

\* the worker takes a request from its queue and answers it
OnMessage ==
    /\ inbox # <<>>
    /\ Answer(NextRequest(inbox))
    /\ inbox' = Tail(inbox)
    /\ UNCHANGED viewVars

\* worker.postMessage(req) on the page
PostMessage(req) ==
    /\ inbox' = Append(inbox, req)
    /\ UNCHANGED <<workerVars, archiveVars, viewVars>>

----------------------------------------------------------------------------
(* The page: the names of the workspaces                                    *)
(*                                                                          *)
(* workspaceSummaries is the state of the page component, storedIndex the   *)
(* workspace index in the storage directory.  creating and renaming hold    *)
(* the invocation of handleConfirmCreateWorkspace and of                    *)
(* confirmRenameWorkspace that is under way, with the place of its next     *)
(* await; the page takes events while an invocation waits.  issued counts   *)
(* the ids createId has made, clock is the next value of Date.now().        *)

normalizeWorkspaceName(raw) == toLowerCase(trim(raw))

hasWorkspaceNameCollision(name, summaries, ignoreId) ==
    /\ Len(normalizeWorkspaceName(name)) > 0
    /\ \E k \in 1..Len(summaries) :
          /\ ~(ignoreId # None /\ summaries[k].id = ignoreId[1])
          /\ normalizeWorkspaceName(summaries[k].name) = normalizeWorkspaceName(name)

\* toSummary(createWorkspace(name)), the fields that name the workspace
WorkspaceSummary(id, name, updatedAt) == [id |-> id, name |-> name, updatedAt |-> updatedAt]

\* item put behind the summaries that are not older than it
InsertByUpdatedAt(sorted, item) ==
    SubSeq(sorted, 1, Cardinality({k \in 1..Len(sorted) :
                                      sorted[k].updatedAt >= item.updatedAt}))
        \o <<item>>
        \o SubSeq(sorted,
                  Cardinality({k \in 1..Len(sorted) :
                                  sorted[k].updatedAt >= item.updatedAt}) + 1,
                  Len(sorted))

RECURSIVE SortByUpdatedAt(_)
\* summaries.sort((a, b) => b.updatedAt - a.updatedAt): newest first, stable
SortByUpdatedAt(summaries) ==
    IF summaries = <<>> THEN <<>>
    ELSE InsertByUpdatedAt(SortByUpdatedAt(SubSeq(summaries, 1, Len(summaries) - 1)),
                           summaries[Len(summaries)])

WithoutId(summaries, id) == SelectSeq(summaries, LAMBDA item : item.id # id)

\* the index handleConfirmCreateWorkspace saves for its manifest
CreatedIndex(summary, loaded) ==
    SortByUpdatedAt(<<summary>> \o WithoutId(loaded, summary.id))

\* the index confirmRenameWorkspace saves
RenamedIndex(loaded, id, nextName, updatedAt) ==
    SortByUpdatedAt([k \in 1..Len(loaded) |->
                        IF loaded[k].id = id
                        THEN [loaded[k] EXCEPT !.name = nextName, !.updatedAt = updatedAt]
                        ELSE loaded[k]])

\* handleConfirmCreateWorkspace with raw in the input of the dialog, to its
\* first await; the button is disabled while creatingWorkspace is set
ConfirmCreate(raw) ==
    /\ creating = None
    /\ creating' = IF trim(raw) = <<>> THEN None
                   ELSE Some([at |-> "flushPendingSave", name |-> trim(raw),
                              summaries |-> workspaceSummaries])
    /\ UNCHANGED <<workspaceSummaries, storedIndex, renaming, issued, clock>>
    /\ UNCHANGED <<workerVars, archiveVars, inbox, rootVars, indexVars, searchVars>>

\* the saves are flushed: the check against the summaries of the page, then
\* createWorkspace and the call of loadWorkspaceIndex
CreateChecked(op) ==
    /\ op.at = "flushPendingSave"
    /\ IF hasWorkspaceNameCollision(op.name, op.summaries, None)
       THEN /\ creating' = None
            /\ UNCHANGED <<issued, clock>>
       ELSE /\ creating' = Some([at |-> "loadWorkspaceIndex",
                                  manifest |-> WorkspaceSummary(issued + 1, op.name, clock)])
            /\ issued' = issued + 1
            /\ clock' = clock + 1
    /\ UNCHANGED <<workspaceSummaries, storedIndex, renaming>>
    /\ UNCHANGED <<workerVars, archiveVars, inbox, rootVars, indexVars, searchVars>>

\* the index is loaded: the check against it, then saveWorkspaceManifest
CreateLoaded(op) ==
    /\ op.at = "loadWorkspaceIndex"
    /\ creating' = IF hasWorkspaceNameCollision(op.manifest.name, storedIndex, None)
                   THEN None
                   ELSE Some([at |-> "saveWorkspaceManifest", manifest |-> op.manifest,
                              nextIndex |-> CreatedIndex(op.manifest, storedIndex)])
    /\ UNCHANGED <<workspaceSummaries, storedIndex, renaming, issued, clock>>
    /\ UNCHANGED <<workerVars, archiveVars, inbox, rootVars, indexVars, searchVars>>

\* the manifest is saved: saveWorkspaceIndex writes the next index
CreateSaved(op) ==
    /\ op.at = "saveWorkspaceManifest"
    /\ storedIndex' = op.nextIndex
    /\ creating' = Some([at |-> "saveWorkspaceIndex", nextIndex |-> op.nextIndex])
    /\ UNCHANGED <<workspaceSummaries, renaming, issued, clock>>
    /\ UNCHANGED <<workerVars, archiveVars, inbox, rootVars, indexVars, searchVars>>

\* the index is saved: the state of the page is set and the handler ends
CreateDone(op) ==
    /\ op.at = "saveWorkspaceIndex"
    /\ workspaceSummaries' = op.nextIndex
    /\ creating' = None
    /\ UNCHANGED <<storedIndex, renaming, issued, clock>>
    /\ UNCHANGED <<workerVars, archiveVars, inbox, rootVars, indexVars, searchVars>>

CreateStep ==
    /\ creating # None
    /\ \/ CreateChecked(creating[1])
       \/ CreateLoaded(creating[1])
       \/ CreateSaved(creating[1])
       \/ CreateDone(creating[1])

\* confirmRenameWorkspace for the tab of workspaceId with raw in its input,
\* to its first await; the input is disabled while renamingWorkspaceBusy
ConfirmRename(workspaceId, raw) ==
    /\ renaming = None
    /\ renaming' =
          IF \/ trim(raw) = <<>>
             \/ hasWorkspaceNameCollision(trim(raw), WithoutId(workspaceSummaries, workspaceId),
                                          None)
          THEN None
          ELSE Some([at |-> "flushPendingSave", id |-> workspaceId, name |-> trim(raw)])
    /\ UNCHANGED <<workspaceSummaries, storedIndex, creating, issued, clock>>
    /\ UNCHANGED <<workerVars, archiveVars, inbox, rootVars, indexVars, searchVars>>

\* the saves are flushed: the manifest is updated and saveWorkspaceManifest
\* is called
RenameFlushed(op) ==
    /\ op.at = "flushPendingSave"
    /\ renaming' = Some([at |-> "saveWorkspaceManifest", id |-> op.id, name |-> op.name,
                         updatedAt |-> clock])
    /\ clock' = clock + 1
    /\ UNCHANGED <<workspaceSummaries, storedIndex, creating, issued>>
    /\ UNCHANGED <<workerVars, archiveVars, inbox, rootVars, indexVars, searchVars>>

\* the manifest is saved: loadWorkspaceIndex reads the index
RenameLoaded(op) ==
    /\ op.at = "saveWorkspaceManifest"
    /\ renaming' = Some([at |-> "loadWorkspaceIndex",
                         nextSummaries |-> RenamedIndex(storedIndex, op.id, op.name,
                                                        op.updatedAt)])
    /\ UNCHANGED <<workspaceSummaries, storedIndex, creating, issued, clock>>
    /\ UNCHANGED <<workerVars, archiveVars, inbox, rootVars, indexVars, searchVars>>

\* saveWorkspaceIndex writes the summaries with the new name
RenameSaved(op) ==
    /\ op.at = "loadWorkspaceIndex"
    /\ storedIndex' = op.nextSummaries
    /\ renaming' = Some([at |-> "saveWorkspaceIndex", nextSummaries |-> op.nextSummaries])
    /\ UNCHANGED <<workspaceSummaries, creating, issued, clock>>
    /\ UNCHANGED <<workerVars, archiveVars, inbox, rootVars, indexVars, searchVars>>

\* the index is saved: the state of the page is set and the handler ends
RenameDone(op) ==
    /\ op.at = "saveWorkspaceIndex"
    /\ workspaceSummaries' = op.nextSummaries
    /\ renaming' = None
    /\ UNCHANGED <<storedIndex, creating, issued, clock>>
    /\ UNCHANGED <<workerVars, archiveVars, inbox, rootVars, indexVars, searchVars>>

RenameStep ==
    /\ renaming # None
    /\ \/ RenameFlushed(renaming[1])
       \/ RenameLoaded(renaming[1])
       \/ RenameSaved(renaming[1])
       \/ RenameDone(renaming[1])

\* the default workspace loadDirectoryWorkspaceIndex leaves in an empty
\* directory, under the name "a"
FirstIndex == <<WorkspaceSummary(1, <<97>>, 0)>>

----------------------------------------------------------------------------
(* The page: buildSearchIndex                                               *)
(*                                                                          *)
(* roots are the roots of the active workspace, each with the files its     *)
(* import has written; unreadable holds the keys of the files that          *)
(* readBinaryFile fails on at present.  indexedSignatures is                *)
(* indexedSignaturesRef, a Map kept as the sequence of its entries in       *)
(* insertion order.  passes holds the invocations of buildSearchIndex that  *)
(* wait for a read.  An effect of the component runs when its dependencies  *)
(* differ from the ones it ran with last: indexEffectSeen and               *)
(* searchEffectSeen hold those.                                             *)

DEFAULT_INDEX_STATUS ==
    [indexing |-> FALSE, indexedFiles |-> 0, changedFiles |-> 0, totalFiles |-> 0]

MAX_INDEX_FILE_BYTES == 24 * 1024 * 1024

RECURSIVE MapDeleteAll(_, _)
MapDeleteAll(map, keys) ==
    IF keys = <<>> THEN map ELSE MapDeleteAll(MapDelete(map, Head(keys)), Tail(keys))

\* [...map.keys()]
MapKeyList(map) == [k \in 1..Len(map) |-> map[k].key]

\* indexedSignaturesRef.current.get(workspaceId) ?? new Map()
SignaturesOf(all, workspaceId) ==
    IF MapHas(all, workspaceId) THEN MapGet(all, workspaceId) ELSE <<>>

searchFileKey(rootId, filePath) == rootId \o <<58, 58>> \o filePath

\* the text `${root.id}:${file.path}:${file.size}`, kept as its three parts
FileSignature(root, file) == <<root.id, file.path, file.size>>

IsIndexable(file) == file.textLike /\ file.size <= MAX_INDEX_FILE_BYTES

TextFilesOf(root) ==
    <<>> \o [k \in 1..Len(SelectSeq(root.files, IsIndexable)) |->
                [rootId     |-> root.id,
                 sourceName |-> root.sourceName,
                 filePath   |-> SelectSeq(root.files, IsIndexable)[k].path,
                 fileKey    |-> searchFileKey(root.id,
                                              SelectSeq(root.files, IsIndexable)[k].path),
                 signature  |-> FileSignature(root, SelectSeq(root.files, IsIndexable)[k])]]

RECURSIVE AllTextFiles(_)
\* workspace.roots.flatMap(...) of buildSearchIndex
AllTextFiles(rs) ==
    IF rs = <<>> THEN <<>> ELSE TextFilesOf(Head(rs)) \o AllTextFiles(Tail(rs))

indexableFileCount(rs) == Len(AllTextFiles(rs))

\* the text `${root.id}:${root.files.length}:${sum of sizes}` of every root
RECURSIVE SumSizes(_)
SumSizes(files) == IF files = <<>> THEN 0 ELSE Head(files).size + SumSizes(Tail(files))

indexSignature(rs) ==
    [k \in 1..Len(rs) |-> <<rs[k].id, Len(rs[k].files), SumSizes(rs[k].files)>>]

\* signatures.get(fileKey) === signature
IsRecorded(signatures, fileKey, signature) ==
    MapHas(signatures, fileKey) /\ MapGet(signatures, fileKey) = signature

ChangedFiles(all, previousSignatures) ==
    SelectSeq(all, LAMBDA entry : ~IsRecorded(previousSignatures, entry.fileKey,
                                              entry.signature))

RemovedFileKeys(all, previousSignatures) ==
    SelectSeq(MapKeyList(previousSignatures),
              LAMBDA fileKey : ~\E k \in 1..Len(all) : all[k].fileKey = fileKey)

\* the bytes of the files in the storage directory, decoded: an ASCII text
\* is its bytes
DiskText(fileKey) ==
    IF fileKey = <<114, 49, 58, 58, 97>>                    \* "r1::a"
    THEN <<69, 82, 82, 79, 82, 32, 120>>                    \* "ERROR x"
    ELSE <<111, 107>>                                       \* "ok"

\* buildSearchIndex from its entry to the loop over the changed files
NewPass(workspaceId, all, previousSignatures) ==
    [workspaceId     |-> workspaceId,
     changedFiles    |-> ChangedFiles(all, previousSignatures),
     removedFileKeys |-> RemovedFileKeys(all, previousSignatures),
     replace         |-> Len(previousSignatures) = 0,
     totalFiles      |-> Len(all),
     at              |-> 1,
     payload         |-> <<>>,
     nextSignatures  |-> MapDeleteAll(previousSignatures,
                                      RemovedFileKeys(all, previousSignatures))]

\* mutant: the signature of a file is recorded whether it was read or not
AfterRead_Recorded(pass, read) ==
    [pass EXCEPT
        !.at = @ + 1,
        !.payload = IF read
                    THEN Append(@, [workspaceId |-> pass.workspaceId,
                                    fileKey     |-> pass.changedFiles[pass.at].fileKey,
                                    signature   |-> pass.changedFiles[pass.at].signature,
                                    rootId      |-> pass.changedFiles[pass.at].rootId,
                                    sourceName  |-> pass.changedFiles[pass.at].sourceName,
                                    filePath    |-> pass.changedFiles[pass.at].filePath,
                                    text        |-> DiskText(pass.changedFiles[pass.at].fileKey)])
                    ELSE @,
        !.nextSignatures = MapSet(@, pass.changedFiles[pass.at].fileKey,
                                  pass.changedFiles[pass.at].signature)]

\* one turn of the loop: the read of the file at hand has resolved (read)
\* or was rejected
AfterRead(pass, read) ==
    [pass EXCEPT
        !.at = @ + 1,
        !.payload = IF read
                    THEN Append(@, [workspaceId |-> pass.workspaceId,
                                    fileKey     |-> pass.changedFiles[pass.at].fileKey,
                                    signature   |-> pass.changedFiles[pass.at].signature,
                                    rootId      |-> pass.changedFiles[pass.at].rootId,
                                    sourceName  |-> pass.changedFiles[pass.at].sourceName,
                                    filePath    |-> pass.changedFiles[pass.at].filePath,
                                    text        |-> DiskText(pass.changedFiles[pass.at].fileKey)])
                    ELSE @,
        !.nextSignatures = IF read
                           THEN MapSet(@, pass.changedFiles[pass.at].fileKey,
                                       pass.changedFiles[pass.at].signature)
                           ELSE @]

\* the indexDelta message of a pass whose loop is over
PassDelta(pass) ==
    [type            |-> "indexDelta",
     workspaceId     |-> pass.workspaceId,
     replace         |-> pass.replace,
     files           |-> pass.payload,
     removedFileKeys |-> pass.removedFileKeys,
     totalFiles      |-> pass.totalFiles]

\* the end of buildSearchIndex: the message is posted and the signatures
\* are stored
PassPosted(pass, waiting) ==
    /\ inbox' = Append(inbox, PassDelta(pass))
    /\ indexedSignatures' = MapSet(indexedSignatures, pass.workspaceId, pass.nextSignatures)
    /\ passes' = waiting

\* buildSearchIndex(workspace) to its first await, or to its end when no
\* file is to be read; wasActive is indexingWasActiveRef at its entry
BuildSearchIndex(workspaceId, all, previousSignatures, wasActive) ==
    IF /\ ChangedFiles(all, previousSignatures) = <<>>
       /\ RemovedFileKeys(all, previousSignatures) = <<>>
    THEN /\ indexStatus' = [indexing |-> FALSE, indexedFiles |-> Len(all),
                            totalFiles |-> Len(all), changedFiles |-> 0]
         /\ indexingWasActive' = wasActive
         /\ UNCHANGED <<passes, indexedSignatures, inbox>>
    ELSE /\ indexingWasActive' = TRUE
         /\ indexStatus' = [indexing |-> TRUE, indexedFiles |-> Len(previousSignatures),
                            totalFiles |-> Len(all),
                            changedFiles |-> Len(ChangedFiles(all, previousSignatures))]
         /\ IF ChangedFiles(all, previousSignatures) = <<>>
            THEN PassPosted(NewPass(workspaceId, all, previousSignatures), passes)
            ELSE /\ passes' = Append(passes, NewPass(workspaceId, all, previousSignatures))
                 /\ UNCHANGED <<indexedSignatures, inbox>>

\* the read a pass waits for has settled
ReadSettled(k, after) ==
    /\ IF after.at > Len(after.changedFiles)
       THEN PassPosted(after, SubSeq(passes, 1, k - 1) \o SubSeq(passes, k + 1, Len(passes)))
       ELSE /\ passes' = [passes EXCEPT ![k] = after]
            /\ UNCHANGED <<indexedSignatures, inbox>>
    /\ UNCHANGED <<indexStatus, indexingWasActive, indexEffectSeen>>
    /\ UNCHANGED <<workerVars, archiveVars, nameVars, rootVars, searchVars>>

ReadStep ==
    \E k \in 1..Len(passes) :
        ReadSettled(k, AfterRead(passes[k],
                                 passes[k].changedFiles[passes[k].at].fileKey \notin unreadable))

IndexEffectDeps == <<activeWorkspaceId, indexSignature(roots)>>

\* the effect on [activeWorkspaceId, indexSignature]: buildSearchIndex of the
\* active workspace
IndexEffect ==
    /\ IndexEffectDeps # indexEffectSeen
    /\ indexEffectSeen' = IndexEffectDeps
    /\ BuildSearchIndex(activeManifestId, AllTextFiles(roots),
                        SignaturesOf(indexedSignatures, activeManifestId),
                        indexingWasActive)
    /\ UNCHANGED <<workerVars, archiveVars, nameVars, rootVars, searchVars>>

----------------------------------------------------------------------------
(* The page: executeSearch and worker.onmessage *)

NoInput == [query |-> <<>>, options |-> SearchOptions(FALSE, FALSE, 2, 600, NoFilters)]

hasSearchInput(input) == trim(input.query) # <<>> \/ hasAnyFilter(input.options.filters)

\* the displayed search state after a reset
ClearedView ==
    [searching |-> FALSE, error |-> None, results |-> <<>>, matchedFiles |-> {},
     timeline |-> <<>>, aggregation |-> createAggregation]

\* mutant: every searchResult is applied
AppliedResult_Any(view, latest, payload) ==
    IF payload.error # None
    THEN [ClearedView EXCEPT !.error = payload.error]
    ELSE [searching |-> FALSE, error |-> None, results |-> payload.results,
          matchedFiles |-> Range(payload.matchedFiles), timeline |-> payload.timeline,
          aggregation |-> payload.aggregations]

\* worker.onmessage on a searchResult: the displayed state it leaves
AppliedResult(view, latest, payload) ==
    IF payload.requestId # latest THEN view
    ELSE IF payload.error # None
    THEN [ClearedView EXCEPT !.error = payload.error]
    ELSE [searching |-> FALSE, error |-> None, results |-> payload.results,
          matchedFiles |-> Range(payload.matchedFiles), timeline |-> payload.timeline,
          aggregation |-> payload.aggregations]

\* worker.onmessage on an indexStatus
AppliedStatus(status, payload) ==
    IF payload.workspaceId # activeWorkspaceId THEN status
    ELSE [indexing |-> FALSE, indexedFiles |-> payload.indexedFiles,
          changedFiles |-> payload.changedFiles, totalFiles |-> payload.totalFiles]

\* the page is handed the oldest response of the worker
PageOnMessage ==
    /\ outbox # <<>>
    /\ outbox' = Tail(outbox)
    /\ request' = None
    /\ IF Head(outbox).type = "indexStatus"
       THEN /\ indexStatus' = AppliedStatus(indexStatus, Head(outbox))
            /\ UNCHANGED searchView
       ELSE /\ searchView' = AppliedResult(searchView, latestSearchRequestId, Head(outbox))
            /\ UNCHANGED indexStatus
    /\ UNCHANGED <<workspaceIndexes, archiveVars, inbox, nameVars, rootVars>>
    /\ UNCHANGED <<indexedSignatures, passes, indexingWasActive, indexEffectSeen>>
    /\ UNCHANGED <<pendingSearchAfterIndex, searchEffectSeen, realtimeEffectSeen,
                   searchInput,
                   latestSearchRequestId>>

MaxSearchIds == 3

createId(prefix, made) == <<prefix, made + 1>>

\* executeSearch with input in the search box; wasActive and pending are
\* indexingWasActiveRef and pendingSearchAfterIndexRef at its entry
ExecuteSearch(input, wasActive, pending) ==
    IF ~hasSearchInput(input)
    THEN /\ searchView' = ClearedView
         /\ indexingWasActive' = wasActive
         /\ pendingSearchAfterIndex' = pending
         /\ UNCHANGED <<issued, latestSearchRequestId>>
         /\ UNCHANGED <<indexStatus, passes, indexedSignatures, inbox>>
    ELSE /\ issued < MaxSearchIds
         /\ issued' = issued + 1
         /\ latestSearchRequestId' = createId("search", issued)
         /\ searchView' = [searchView EXCEPT !.searching = TRUE]
         /\ IF \/ indexStatus.indexing
               \/ indexStatus.indexedFiles < indexableFileCount(roots)
            THEN /\ pendingSearchAfterIndex' = TRUE
                 /\ IF ~indexStatus.indexing
                    THEN BuildSearchIndex(activeManifestId, AllTextFiles(roots),
                                          SignaturesOf(indexedSignatures, activeManifestId),
                                          wasActive)
                    ELSE /\ indexingWasActive' = wasActive
                         /\ UNCHANGED <<indexStatus, passes, indexedSignatures, inbox>>
            ELSE /\ inbox' = Append(inbox, SearchRequest(createId("search", issued),
                                                         activeManifestId, input.query,
                                                         input.options))
                 /\ indexingWasActive' = wasActive
                 /\ pendingSearchAfterIndex' = pending
                 /\ UNCHANGED <<indexStatus, passes, indexedSignatures>>

\* the search button, the Enter key or the timer of the realtime search
SearchPressed ==
    /\ ExecuteSearch(searchInput, indexingWasActive, pendingSearchAfterIndex)
    /\ UNCHANGED <<workerVars, archiveVars, rootVars, indexEffectSeen, searchEffectSeen,
                   realtimeEffectSeen,
                   searchInput>>
    /\ UNCHANGED <<workspaceSummaries, storedIndex, creating, renaming, clock>>

\* the user edits the search box
SetSearchQuery(query) ==
    /\ searchInput' = [searchInput EXCEPT !.query = query]
    /\ UNCHANGED <<pendingSearchAfterIndex, searchEffectSeen, realtimeEffectSeen,
                   latestSearchRequestId,
                   searchView>>
    /\ UNCHANGED <<workerVars, archiveVars, inbox, nameVars, rootVars, indexVars>>

\* clearSearch: the clear button of the search panel and the command of the
\* same name
ClearSearch ==
    /\ latestSearchRequestId' = <<>>
    /\ searchView' = ClearedView
    /\ UNCHANGED <<pendingSearchAfterIndex, searchEffectSeen, realtimeEffectSeen,
                   searchInput>>
    /\ UNCHANGED <<workerVars, archiveVars, inbox, nameVars, rootVars, indexVars>>

SearchEffectDeps ==
    <<activeManifestId, searchInput, indexableFileCount(roots), indexStatus.indexedFiles,
      indexStatus.indexing, indexStatus.totalFiles>>

\* the effect that runs the deferred search when indexing has ended
PendingSearchEffect ==
    /\ SearchEffectDeps # searchEffectSeen
    /\ searchEffectSeen' = SearchEffectDeps
    /\ IF indexStatus.indexing \/ ~indexingWasActive
       THEN UNCHANGED <<indexingWasActive, pendingSearchAfterIndex, issued,
                        latestSearchRequestId, searchView, indexStatus, passes,
                        indexedSignatures, inbox>>
       ELSE IF ~pendingSearchAfterIndex
       THEN /\ indexingWasActive' = FALSE
            /\ UNCHANGED <<pendingSearchAfterIndex, issued, latestSearchRequestId,
                           searchView, indexStatus, passes, indexedSignatures, inbox>>
       ELSE IF ~hasSearchInput(searchInput)
       THEN /\ indexingWasActive' = FALSE
            /\ pendingSearchAfterIndex' = FALSE
            /\ UNCHANGED <<issued, latestSearchRequestId, searchView, indexStatus, passes,
                           indexedSignatures, inbox>>
       ELSE ExecuteSearch(searchInput, FALSE, FALSE)
    /\ UNCHANGED <<workerVars, archiveVars, rootVars, indexEffectSeen, searchInput,
                   realtimeEffectSeen>>
    /\ UNCHANGED <<workspaceSummaries, storedIndex, creating, renaming, clock>>

\* the identity of executeSearch: the dependencies of its useCallback
ExecuteSearchDeps ==
    <<activeManifestId, hasSearchInput(searchInput), indexStatus.indexedFiles,
      indexStatus.indexing, indexableFileCount(roots), searchInput>>

\* the dependencies of the effect of the realtime search, the option being on
RealtimeEffectDeps == <<activeManifestId, ExecuteSearchDeps, TRUE>>

\* the timer of the realtime search has fired 280 ms after the last change
\* of its dependencies: executeSearch
RealtimeSearchEffect ==
    /\ RealtimeEffectDeps # realtimeEffectSeen
    /\ realtimeEffectSeen' = RealtimeEffectDeps
    /\ ExecuteSearch(searchInput, indexingWasActive, pendingSearchAfterIndex)
    /\ UNCHANGED <<workerVars, archiveVars, rootVars, indexEffectSeen, searchEffectSeen,
                   searchInput>>
    /\ UNCHANGED <<workspaceSummaries, storedIndex, creating, renaming, clock>>

----------------------------------------------------------------------------
(* The page: importArchives                                                 *)
(*                                                                          *)
(* importing is the flag of the page; importRun is the call of              *)
(* importArchives under way: its files, the index of its loop, the await it *)
(* stands at and its local variable working.  extractArchiveRecursively is  *)
(* the walk of the archives above, which the call starts and waits for.     *)

\* the summaries know the workspace the worker knows as "w1" under the id 1
SummaryId(workspaceId) == IF workspaceId = "w1" THEN 1 ELSE 2

\* the manifest activeWorkspace holds: its summary and its roots
ActiveManifest ==
    [summary |-> SelectSeq(workspaceSummaries,
                           LAMBDA item : item.id = SummaryId(activeManifestId))[1],
     roots |-> roots]

\* persistWorkspaceSummary(manifest): the summaries and the index it saves
persistWorkspaceSummary(manifest, previous) ==
    SortByUpdatedAt(<<manifest.summary>> \o WithoutId(previous, manifest.summary.id))

\* the files of the root: one entry for each item that was written
FilesIndex(written) ==
    [k \in 1..Len(written) |-> [path |-> written[k].path, size |-> written[k].size,
                                textLike |-> written[k].textLike]]

RootArchive(rootId, sourceName, written) ==
    [id |-> rootId, sourceName |-> sourceName, files |-> FilesIndex(written)]

RECURSIVE Written(_, _)
\* the items of extracted whose writeBinaryFile did not throw
Written(extracted, failed) ==
    IF extracted = <<>> THEN <<>>
    ELSE Written(SubSeq(extracted, 1, Len(extracted) - 1), failed)
         \o (IF Len(extracted) \in failed THEN <<>> ELSE <<extracted[Len(extracted)]>>)

\* the loop moves to the next file
NextFile(run) == [run EXCEPT !.fileIndex = run.fileIndex + 1, !.at = "arrayBuffer"]

\* the body of the loop after extractArchiveRecursively has ended with
\* outcome and extracted, for the writes of failed throwing
AfterExtraction(run, archive, outcome, extracted, failed) ==
    IF outcome = "threw"
    THEN /\ importRun' = Some(NextFile(run))
         /\ UNCHANGED <<roots, issued, clock>>
    ELSE IF extracted = <<>>
    THEN /\ importRun' = Some(NextFile(run))
         /\ UNCHANGED <<roots, issued, clock>>
    ELSE IF Written(extracted, failed) = <<>>
    THEN /\ importRun' = Some(NextFile(run))
         /\ issued' = issued + 1
         /\ UNCHANGED <<roots, clock>>
    ELSE /\ issued' = issued + 1
         /\ clock' = clock + 1
         /\ roots' = Append(run.working.roots,
                            RootArchive(createId("root", issued), archive.fileName,
                                        Written(extracted, failed)))
         /\ importRun' =
               Some([NextFile(run) EXCEPT
                       !.working = [summary |-> [run.working.summary EXCEPT
                                                    !.updatedAt = clock],
                                    roots |-> roots']])

\* importArchives(files), to the first await of its loop
ImportArchives(files) ==
    /\ importRun = None
    /\ IF files = <<>>
       THEN UNCHANGED <<importing, importRun>>
       ELSE /\ importing' = TRUE
            /\ importRun' = Some([files |-> files, fileIndex |-> 1, at |-> "arrayBuffer",
                                  working |-> ActiveManifest])
    /\ UNCHANGED <<activeWorkspaceId, activeManifestId, switching, loading, roots, unreadable>>
    /\ UNCHANGED <<workerVars, archiveVars, inbox, nameVars, indexVars, searchVars>>

\* the bytes of the file are read: extractArchiveRecursively is called
ImportRead(run) ==
    /\ run.at = "arrayBuffer"
    /\ run.fileIndex <= Len(run.files)
    /\ ExtractCall(run.files[run.fileIndex].fileName, run.files[run.fileIndex].bytes)
    /\ importRun' = Some([run EXCEPT !.at = "extractArchiveRecursively"])
    /\ UNCHANGED <<activeWorkspaceId, activeManifestId, switching, loading, roots, unreadable, importing>>
    /\ UNCHANGED <<workerVars, inbox, nameVars, indexVars, searchVars>>

\* extractArchiveRecursively has returned or thrown: the rest of the body
ImportExtracted(run) ==
    /\ run.at = "extractArchiveRecursively"
    /\ extraction \in {"returned", "threw"}
    /\ \E failed \in SUBSET (1..Len(output)) :
          AfterExtraction(run, run.files[run.fileIndex], extraction, output, failed)
    /\ UNCHANGED <<activeWorkspaceId, activeManifestId, switching, loading, unreadable, importing>>
    /\ UNCHANGED <<workspaceSummaries, storedIndex, creating, renaming>>
    /\ UNCHANGED <<workerVars, archiveVars, inbox, indexVars, searchVars>>

\* the loop has ended: setImporting(false) and persistWorkspaceSummary
ImportEnded(run) ==
    /\ run.at = "arrayBuffer"
    /\ run.fileIndex > Len(run.files)
    /\ importing' = FALSE
    /\ importRun' = None
    /\ workspaceSummaries' = persistWorkspaceSummary(run.working, workspaceSummaries)
    /\ storedIndex' = persistWorkspaceSummary(run.working, workspaceSummaries)
    /\ UNCHANGED <<activeWorkspaceId, activeManifestId, switching, loading, roots, unreadable>>
    /\ UNCHANGED <<creating, renaming, issued, clock>>
    /\ UNCHANGED <<workerVars, archiveVars, inbox, indexVars, searchVars>>

ImportStep ==
    /\ importRun # None
    /\ \/ ImportRead(importRun[1])
       \/ ImportExtracted(importRun[1])
       \/ ImportEnded(importRun[1])

----------------------------------------------------------------------------
(* The page: switchWorkspace and the effect that loads the active workspace *)
(*                                                                          *)
(* activeWorkspaceId is the state of that name and activeManifestId the id  *)
(* of the manifest in activeWorkspace, whose roots are roots.  switching    *)
(* holds the calls of switchWorkspace that wait for flushPendingSave, and   *)
(* loading the workspace whose manifest the effect on activeWorkspaceId is  *)
(* reading: a new run of the effect cancels the one before.                 *)

\* resetWorkspaceView: what it leaves of the displayed search state
resetWorkspaceView(view) ==
    [view EXCEPT !.results = <<>>, !.matchedFiles = {}, !.error = None,
                 !.timeline = <<>>, !.aggregation = createAggregation]

\* switchWorkspace(workspaceId) to its await
SwitchWorkspace(workspaceId) ==
    /\ workspaceId # activeWorkspaceId
    /\ switching' = Append(switching, workspaceId)
    /\ UNCHANGED <<activeWorkspaceId, activeManifestId, loading, roots, unreadable,
                   importing, importRun>>
    /\ UNCHANGED <<workerVars, archiveVars, inbox, nameVars, indexVars, searchVars>>

\* flushPendingSave has resolved: setActiveWorkspaceId, and the effect on
\* activeWorkspaceId starts to load the manifest when the id has changed
SwitchFlushed ==
    /\ switching # <<>>
    /\ switching' = Tail(switching)
    /\ activeWorkspaceId' = Head(switching)
    /\ loading' = IF Head(switching) # activeWorkspaceId THEN Some(Head(switching))
                  ELSE loading
    /\ UNCHANGED <<activeManifestId, roots, unreadable, importing, importRun>>
    /\ UNCHANGED <<workerVars, archiveVars, inbox, nameVars, indexVars, searchVars>>

\* loadWorkspaceManifest has resolved with a manifest whose roots are
\* manifestRoots: setActiveWorkspace and resetWorkspaceView
WorkspaceLoaded(manifestRoots) ==
    /\ loading # None
    /\ loading' = None
    /\ activeManifestId' = loading[1]
    /\ roots' = manifestRoots
    /\ searchView' = resetWorkspaceView(searchView)
    /\ UNCHANGED <<activeWorkspaceId, switching, unreadable, importing, importRun>>
    /\ UNCHANGED <<pendingSearchAfterIndex, searchEffectSeen, realtimeEffectSeen,
                   searchInput,
                   latestSearchRequestId>>
    /\ UNCHANGED <<workerVars, archiveVars, inbox, nameVars, indexVars>>

\* the page that has opened a directory whose index is index and loaded the
\* manifest of workspace w1, whose roots are rs
InitWith(index, rs) ==
    /\ workspaceIndexes = <<>>
    /\ request = None
    /\ outbox = None
    /\ upload = None
    /\ calls = <<>>
    /\ output = <<>>
    /\ extraction = "idle"
    /\ tar = None
    /\ inbox = <<>>
    /\ workspaceSummaries = index
    /\ storedIndex = index
    /\ creating = None
    /\ renaming = None
    /\ issued = 1
    /\ clock = 1
    /\ activeWorkspaceId = "w1"
    /\ activeManifestId = "w1"
    /\ switching = <<>>
    /\ loading = None
    /\ roots = rs
    /\ unreadable = {}
    /\ importing = FALSE
    /\ importRun = None
    /\ indexedSignatures = <<>>
    /\ passes = <<>>
    /\ indexStatus = DEFAULT_INDEX_STATUS
    /\ indexingWasActive = FALSE
    /\ pendingSearchAfterIndex = FALSE
    /\ indexEffectSeen = <<"w1", indexSignature(<<>>)>>
    /\ searchInput = NoInput
    /\ latestSearchRequestId = <<>>
    /\ searchView = ClearedView
    /\ searchEffectSeen = SearchEffectDeps
    /\ realtimeEffectSeen = RealtimeEffectDeps

\* a directory with one workspace that has no root yet
Init == InitWith(FirstIndex, <<>>)

----------------------------------------------------------------------------
(* The requests of the index worker's specification *)

MaxFiles == 2

SeqsUpTo(S, n) == UNION {[1..k -> S] : k \in 0..n}

\* the identity fields the page puts in a payload; fileKey = rootId::filePath
FileIds ==
    { [fileKey |-> <<114, 49, 58, 58, 97>>,    \* "r1::a"
       rootId |-> "r1", sourceName |-> "app.zip", filePath |-> "a"],
      [fileKey |-> <<114, 50, 58, 58, 97>>,    \* "r2::a"
       rootId |-> "r2", sourceName |-> "db.tar", filePath |-> "a"] }

FileKeys == {id.fileKey : id \in FileIds}

Signatures == {"s1", "s2"}

Payload(workspaceId, id, signature, text) ==
    [workspaceId |-> workspaceId,
     fileKey     |-> id.fileKey,
     signature   |-> signature,
     rootId      |-> id.rootId,
     sourceName  |-> id.sourceName,
     filePath    |-> id.filePath,
     text        |-> text]

Payloads(workspaceId, ids, signatures, texts) ==
    {Payload(workspaceId, id, sg, t) : id \in ids, sg \in signatures, t \in texts}

IndexDeltaRequest(workspaceId, replace, files, removedFileKeys) ==
    [type            |-> "indexDelta",
     workspaceId     |-> workspaceId,
     replace         |-> replace,
     files           |-> files,
     removedFileKeys |-> removedFileKeys,
     totalFiles      |-> Len(files)]

\* the removedFileKeys arrays: every set of keys, in one order each
RemovedLists ==
    {<<>>} \cup {<<k>> : k \in FileKeys}
           \cup {p \in FileKeys \X FileKeys : p[1] # p[2]}

\* a text under one signature, another text under the same signature, and
\* the first text under another signature
SignedTexts ==
    {st \in Signatures \X IndexTexts :
        st[1] = "s1" \/ st[2] = <<69, 82, 82, 79, 82, 32, 120>>}      \* "ERROR x"

DeltaPayloads == {Payload("w1", id, st[1], st[2]) : id \in FileIds, st \in SignedTexts}

DeltaRequests ==
    {IndexDeltaRequest("w1", r, fs, rm) :
        r \in BOOLEAN,
        fs \in SeqsUpTo(DeltaPayloads, MaxFiles),
        rm \in RemovedLists}
    \cup
    {IndexDeltaRequest("w2", FALSE, <<pl>>, <<>>) :
        pl \in Payloads("w2", {CHOOSE id \in FileIds : id.rootId = "r1"}, {"s1"},
                        {<<69, 82, 82, 79, 82, 32, 120>>})}        \* "ERROR x"

WorkerSearches ==
    {SearchRequest("q1", w, q, SearchOptions(rx, FALSE, 2, 600, NoFilters)) :
        w \in {"w1", "w2"},
        q \in { <<>>,
                <<101, 114, 114, 111, 114>>,     \* "error"
                <<40>> },                        \* "("
        rx \in BOOLEAN}

IndexDeltaStep == \E req \in DeltaRequests : HandleIndexDelta(req)

SearchStep == \E req \in WorkerSearches : HandleSearch(req)

Next == IndexDeltaStep \/ SearchStep \/ Deliver

Spec == Init /\ [][Next]_vars

----------------------------------------------------------------------------
(* The worker with a searchable index: whole workspaces are indexed by      *)
(* replacing deltas, and searched with every mode, cap and query shape.     *)

LongPayload(id) == Payload("w1", id, "s1", LongText)

ShortPayloads(id) == Payloads("w1", {id}, {"s1"}, IndexTexts)

FileId(rootId) == CHOOSE id \in FileIds : id.rootId = rootId

\* the file lists of the indexed workspaces
SearchCorpora ==
    {<<pl>> : pl \in ShortPayloads(FileId("r1"))}
    \cup {<<LongPayload(FileId("r1"))>>,
          <<LongPayload(FileId("r1")), LongPayload(FileId("r2"))>>}
    \cup {<<pl, LongPayload(FileId("r2"))>> : pl \in ShortPayloads(FileId("r1"))}
    \cup {<<LongPayload(FileId("r1")), pl>> : pl \in ShortPayloads(FileId("r2"))}

CorpusDeltas == {IndexDeltaRequest("w1", TRUE, fs, <<>>) : fs \in SearchCorpora}

SearchQueries ==
    { <<>>,
      <<32>>,                                  \* " "
      <<114>>,                                 \* "r"
      <<32, 114, 101, 116, 114, 121>>,         \* " retry"
      <<82, 69, 84, 82, 89>>,                  \* "RETRY"
      <<94, 114, 101, 116, 114, 121>>,         \* "^retry"
      <<98, 36>>,                              \* "b$"
      <<32, 40, 32>> }                         \* " ( "

SearchMaxResults == {-5, 0, 21, 5000}

SearchFilters ==
    {NoFilters, [NoFilters EXCEPT !.level = Some(<<105, 110, 102, 111>>)]}  \* "info"

CorpusSearches ==
    {SearchRequest("q1", "w1", q, SearchOptions(rx, cs, 2, mx, fl)) :
        q \in SearchQueries, rx \in BOOLEAN, cs \in BOOLEAN,
        mx \in SearchMaxResults, fl \in SearchFilters}

CorpusDeltaStep == \E req \in CorpusDeltas : HandleIndexDelta(req)

CorpusSearchStep == \E req \in CorpusSearches : HandleSearch(req)

NextSearch == CorpusDeltaStep \/ CorpusSearchStep \/ Deliver

SpecSearch == Init /\ [][NextSearch]_vars

----------------------------------------------------------------------------
(* The worker with one indexed file whose lines differ in their metadata,   *)
(* searched with an empty query under every combination of filters.         *)

FilterDeltas ==
    {IndexDeltaRequest("w1", TRUE, <<Payload("w1", FileId("r1"), "s1", FilterText)>>,
                       <<>>)}

Optional(S) == {None} \cup {Some(x) : x \in S}

FilterSets ==
    [pod       : Optional({<<65, 80, 73>>, <<100, 98>>}),           \* "API", "db"
     container : Optional({<<119, 101, 98>>}),                      \* "web"
     namespace : Optional({<<112, 114, 111, 100>>, <<68, 69, 86>>}),  \* "prod", "DEV"
     level     : Optional({<<101, 114, 114, 111, 114>>,             \* "error"
                           <<73, 78, 70, 79>>,                      \* "INFO"
                           <<119, 97, 114, 110>>}),                 \* "warn"
     timeFrom  : Optional(-MaxT..MaxT),
     timeTo    : Optional(-MaxT..MaxT)]

FilterSearches ==
    {SearchRequest("q1", "w1", <<>>, SearchOptions(FALSE, FALSE, 2, 600, fl)) :
        fl \in FilterSets}

FilterDeltaStep == \E req \in FilterDeltas : HandleIndexDelta(req)

FilterSearchStep == \E req \in FilterSearches : HandleSearch(req)

NextFilter == FilterDeltaStep \/ FilterSearchStep \/ Deliver

SpecFilter == Init /\ [][NextFilter]_vars

----------------------------------------------------------------------------
(* The worker with files whose lines carry events, indexed in either order  *)
(* and searched for the aggregations, matchedFiles and the timeline.        *)

EventPayload(rootId, text) == Payload("w1", FileId(rootId), "s1", text)

EventCorpora ==
    { <<EventPayload("r1", EventsText)>>,
      <<EventPayload("r2", MoreEventsText)>>,
      <<EventPayload("r1", EventsText), EventPayload("r2", MoreEventsText)>>,
      <<EventPayload("r2", MoreEventsText), EventPayload("r1", EventsText)>>,
      <<EventPayload("r2", EventsText), EventPayload("r1", EventsText)>> }

EventDeltas == {IndexDeltaRequest("w1", TRUE, fs, <<>>) : fs \in EventCorpora}

EventQueries ==
    { <<>>,
      <<116>>,                                 \* "t"
      <<110>>,                                 \* "n"
      <<112, 111, 100>>,                       \* "pod"
      <<101, 114, 114, 111, 114>>,             \* "error"
      <<114, 101, 116, 114, 121>>,             \* "retry"
      <<40>> }                                 \* "("

EventFilters ==
    {NoFilters, [NoFilters EXCEPT !.level = Some(<<101, 114, 114, 111, 114>>)]}  \* "error"

EventSearches ==
    {SearchRequest("q1", "w1", q, SearchOptions(rx, cs, 2, 600, fl)) :
        q \in EventQueries, rx \in BOOLEAN, cs \in BOOLEAN, fl \in EventFilters}

EventDeltaStep == \E req \in EventDeltas : HandleIndexDelta(req)

EventSearchStep == \E req \in EventSearches : HandleSearch(req)

NextEvents == EventDeltaStep \/ EventSearchStep \/ Deliver

SpecEvents == Init /\ [][NextEvents]_vars

----------------------------------------------------------------------------
(* The worker with one file that yields more events than the timeline       *)
(* keeps, searched with caps below and above the number of its lines.       *)

CapDeltas ==
    {IndexDeltaRequest("w1", TRUE,
                       <<Payload("w1", FileId("r1"), "s1", CapText(TimelineLimit))>>, <<>>)}

CapSearches ==
    {SearchRequest("q1", "w1", q, SearchOptions(rx, cs, 0, mx, NoFilters)) :
        q \in { <<120>>, <<32, 120>>, <<88>>, <<116>> },        \* "x", " x", "X", "t"
        rx \in BOOLEAN, cs \in BOOLEAN,
        mx \in {TimelineLimit - 1, TimelineLimit, TimelineLimit + OverCap,
                TimelineLimit + OverCap + 1, MaxMaxResults}}

CapDeltaStep == \E req \in CapDeltas : HandleIndexDelta(req)

CapSearchStep == \E req \in CapSearches : HandleSearch(req)

NextCap == CapDeltaStep \/ CapSearchStep \/ Deliver

SpecCap == Init /\ [][NextCap]_vars

----------------------------------------------------------------------------
(* The worker indexing files whose numbers of lines tagged retry lie         *)
(* around the threshold of retry_storm.                                      *)

StormPayloads(rootId) == {Payload("w1", FileId(rootId), "s1", t) : t \in StormTexts}

StormDeltas ==
    {IndexDeltaRequest("w1", r, <<pl>>, <<>>) :
        r \in BOOLEAN, pl \in StormPayloads("r1") \cup StormPayloads("r2")}

StormDeltaStep == \E req \in StormDeltas : HandleIndexDelta(req)

NextStorm == StormDeltaStep \/ Deliver

SpecStorm == Init /\ [][NextStorm]_vars

----------------------------------------------------------------------------
(* The worker with one file of distinct lines, searched with context sizes  *)
(* below, inside and above the range runSearch allows.                      *)

ContextDeltas ==
    {IndexDeltaRequest("w1", TRUE, <<Payload("w1", FileId("r1"), "s1", t)>>, <<>>) :
        t \in ContextTexts}

ContextSizes == {-1, 0, 1, MaxContextLines - 1, MaxContextLines, MaxContextLines + 1}

ContextSearches ==
    {SearchRequest("q1", "w1", q, SearchOptions(FALSE, FALSE, c, 600, NoFilters)) :
        q \in { <<120>>, <<99>>, <<120, 105>> },               \* "x", "c", "xi"
        c \in ContextSizes}

ContextDeltaStep == \E req \in ContextDeltas : HandleIndexDelta(req)

ContextSearchStep == \E req \in ContextSearches : HandleSearch(req)

NextContext == ContextDeltaStep \/ ContextSearchStep \/ Deliver

SpecContext == Init /\ [][NextContext]_vars

----------------------------------------------------------------------------
(* The worker behind its message queue: requests are posted while earlier   *)
(* ones wait or are being answered, and the responses wait for the page.    *)

\* the requests and responses in flight at one time
MaxInFlight == 2

QueuedDeltas ==
    {IndexDeltaRequest("w1", r, <<Payload("w1", FileId("r1"), sg, t)>>, <<>>) :
        r \in BOOLEAN, sg \in Signatures, t \in IndexTexts}
    \cup {IndexDeltaRequest("w2", FALSE, <<>>, <<FileId("r1").fileKey>>)}

QueuedSearches ==
    {SearchRequest(id, "w1", <<101, 114, 114, 111, 114>>,                \* "error"
                   SearchOptions(FALSE, FALSE, 2, 600, NoFilters)) : id \in {"q1", "q2"}}
    \cup {SearchRequest("q1", "w2", <<>>, SearchOptions(FALSE, FALSE, 2, 600, NoFilters))}

PostStep ==
    /\ Len(inbox) + Len(outbox) < MaxInFlight
    /\ \E req \in QueuedDeltas \cup QueuedSearches : PostMessage(req)

NextQueue == PostStep \/ OnMessage \/ Deliver

SpecQueue == Init /\ [][NextQueue]_vars

----------------------------------------------------------------------------
(* The indexing passes and the searches of the page *)

\* the roots two imports leave: app.zip with a log and a binary file, db.tar
\* with a log and a file above the size limit of the index
ImportedRoots ==
    << [id |-> <<114, 49>>, sourceName |-> "app.zip",                  \* "r1"
        files |-> << [path |-> <<97>>, size |-> 7, textLike |-> TRUE],
                     [path |-> <<98>>, size |-> 3, textLike |-> FALSE] >>],
       [id |-> <<114, 50>>, sourceName |-> "db.tar",                   \* "r2"
        files |-> << [path |-> <<97>>, size |-> 2, textLike |-> TRUE],
                     [path |-> <<99>>, size |-> MAX_INDEX_FILE_BYTES + 1,
                      textLike |-> TRUE] >>] >>

\* an import has added its root to the active workspace, at any time
RootImported ==
    /\ Len(roots) < Len(ImportedRoots)
    /\ roots' = Append(roots, ImportedRoots[Len(roots) + 1])
    /\ UNCHANGED <<activeWorkspaceId, activeManifestId, switching, loading, unreadable,
                   importing, importRun>>
    /\ UNCHANGED <<workerVars, archiveVars, inbox, nameVars, indexVars, searchVars>>

\* an import has added its root to the active workspace, while no pass is
\* under way
RootAdded ==
    /\ Len(roots) < Len(ImportedRoots)
    /\ passes = <<>>
    /\ roots' = Append(roots, ImportedRoots[Len(roots) + 1])
    /\ UNCHANGED <<activeWorkspaceId, activeManifestId, switching, loading, unreadable, importing, importRun>>
    /\ UNCHANGED <<workerVars, archiveVars, inbox, nameVars, indexVars, searchVars>>

\* the file whose reads fail at times: r1::a
FlakyFiles == {<<114, 49, 58, 58, 97>>}

\* a file of the storage directory stops or starts being readable, while no
\* pass is under way
DiskChange ==
    /\ passes = <<>>
    /\ \E fileKey \in FlakyFiles :
          unreadable' = IF fileKey \in unreadable
                        THEN unreadable \ {fileKey}
                        ELSE unreadable \cup {fileKey}
    /\ UNCHANGED <<activeWorkspaceId, activeManifestId, switching, loading, roots, importing, importRun>>
    /\ UNCHANGED <<workerVars, archiveVars, inbox, nameVars, indexVars, searchVars>>

TypedQueries == {<<>>, <<101, 114, 114, 111, 114>>}                  \* "", "error"

QueryStep == \E query \in TypedQueries : SetSearchQuery(query)

\* the searches of the page over files that are all readable
NextPage ==
    \/ RootAdded
    \/ IndexEffect
    \/ ReadStep
    \/ OnMessage
    \/ PageOnMessage
    \/ QueryStep
    \/ SearchPressed
    \/ PendingSearchEffect

SpecPage == Init /\ [][NextPage]_vars

\* the searches of the page and the resets of the displayed search state
NextReset == NextPage \/ ClearSearch

SpecReset == Init /\ [][NextReset]_vars

\* a directory with two workspaces: w1 with the root of app.zip and w2 with
\* the root of db.tar
TwoIndex == <<WorkspaceSummary(1, <<97>>, 0), WorkspaceSummary(2, <<98>>, 0)>>

StoredRoots(workspaceId) ==
    IF workspaceId = "w1" THEN <<ImportedRoots[1]>> ELSE <<ImportedRoots[2]>>

InitSwitch == InitWith(TwoIndex, StoredRoots("w1"))

\* the tab the user clicks
ClickedTabs == {"w2"}

\* the user clicks the tab of a workspace of the index, one click at a time
SwitchStep ==
    /\ switching = <<>>
    /\ \E workspaceId \in ClickedTabs :
          /\ \E k \in 1..Len(workspaceSummaries) :
                workspaceSummaries[k].id = SummaryId(workspaceId)
          /\ SwitchWorkspace(workspaceId)

LoadStep == loading # None /\ WorkspaceLoaded(StoredRoots(loading[1]))

\* the searches of the page while the user goes from one workspace to the
\* other
NextSwitch ==
    \/ SwitchStep
    \/ SwitchFlushed
    \/ LoadStep
    \/ IndexEffect
    \/ ReadStep
    \/ OnMessage
    \/ PageOnMessage
    \/ QueryStep
    \/ SearchPressed
    \/ PendingSearchEffect

SpecSwitch == InitSwitch /\ [][NextSwitch]_vars

\* the indexing passes of the page, one at a time, over files whose reads
\* may fail, while the search box is empty
NextIndexing ==
    \/ RootAdded
    \/ DiskChange
    \/ IndexEffect
    \/ ReadStep
    \/ OnMessage
    \/ PageOnMessage
    \/ PendingSearchEffect

SpecIndexing == Init /\ [][NextIndexing]_vars

\* the indexing passes of the page when a root is added while a pass waits
\* for its reads, all files being readable
NextOverlap ==
    \/ RootImported
    \/ IndexEffect
    \/ ReadStep
    \/ OnMessage
    \/ PageOnMessage
    \/ PendingSearchEffect

SpecOverlap == Init /\ [][NextOverlap]_vars

\* a message that carries the id of a search
CarriesSearchId(messages) ==
    \E k \in 1..Len(messages) : messages[k].type \in {"search", "searchResult"}

\* The ids of createId are compared for equality and for nothing else.  When
\* createId has made MaxSearchIds ids and no message carries one of them,
\* the id of the latest request is renamed to one that createId does not
\* make and the count starts again: the searches go on without end over
\* finitely many ids.
IdsRenamed ==
    /\ issued = MaxSearchIds
    /\ ~CarriesSearchId(inbox) /\ ~CarriesSearchId(request) /\ ~CarriesSearchId(outbox)
    /\ issued' = 1
    /\ latestSearchRequestId' = IF latestSearchRequestId = <<>> THEN <<>>
                                ELSE <<"search", 1>>
    /\ UNCHANGED <<workspaceSummaries, storedIndex, creating, renaming, clock>>
    /\ UNCHANGED <<pendingSearchAfterIndex, searchEffectSeen, realtimeEffectSeen,
                   searchInput, searchView>>
    /\ UNCHANGED <<workerVars, archiveVars, inbox, rootVars, indexVars>>

\* the import of app.zip has added the first root
FirstRootAdded == roots = <<>> /\ RootAdded

\* a file of the storage directory stops being readable, and stays so
DiskFails == unreadable = {} /\ DiskChange

\* an effect of the last render has still to run
EffectDue ==
    \/ IndexEffectDeps # indexEffectSeen
    \/ /\ SearchEffectDeps # searchEffectSeen
       /\ (/\ ~indexStatus.indexing
           /\ indexingWasActive
           /\ pendingSearchAfterIndex
           /\ hasSearchInput(searchInput)) => issued < MaxSearchIds

\* React runs the effects of a render before the page handles its next
\* event: the end of an import, a message of the worker, a key of the user,
\* the timer of the realtime search
ImportEvent == ~EffectDue /\ FirstRootAdded

MessageEvent == ~EffectDue /\ PageOnMessage

KeyEvent == ~EffectDue /\ QueryStep

TimerEvent == ~EffectDue /\ RealtimeSearchEffect

\* the searches of the realtime search over the files of one root, whose
\* reads may fail
NextDeferred ==
    \/ ImportEvent
    \/ MessageEvent
    \/ KeyEvent
    \/ TimerEvent
    \/ DiskFails
    \/ IndexEffect
    \/ PendingSearchEffect
    \/ ReadStep
    \/ OnMessage
    \/ IdsRenamed

\* The effects of the component run after the render that changes their
\* dependencies, a read of a file settles, the timer fires, and the worker
\* and the page handle the messages of their queues: these steps are taken
\* when they stay possible.  The steps of the user, of the import and of the
\* storage directory are not.  OnMessage can be taken exactly when inbox is
\* not empty, which is how its fairness is written.
SpecDeferred ==
    /\ Init
    /\ [][NextDeferred]_vars
    /\ WF_vars(IndexEffect)
    /\ WF_vars(ReadStep)
    /\ ([]<>(inbox = <<>>) \/ []<><<OnMessage>>_vars)
    /\ WF_vars(MessageEvent)
    /\ WF_vars(PendingSearchEffect)
    /\ WF_vars(TimerEvent)
    /\ WF_vars(IdsRenamed)

----------------------------------------------------------------------------
(* The imports of batches of archives *)

MaxBatch == 3

\* the files of a batch: two archives that decode, two that parseArchiveEntries throws for and one whose
\* tar decoder does not end
ImportFiles ==
    { [fileName |-> UploadName("zip"), bytes |-> Chain(1, FALSE)],
      [fileName |-> UploadName(KindAt(1, TRUE)), bytes |-> Chain(1, TRUE)],
      [fileName |-> <<117, 112, 46, 122, 105, 112>>, bytes |-> NotAnArchive],   \* "up.zip"
      [fileName |-> <<100, 97, 116, 97, 46, 98, 105, 110>>,                     \* "data.bin"
       bytes |-> NotAnArchive],
      [fileName |-> <<115, 116, 97, 108, 108, 46, 116, 97, 114>>,        \* "stall.tar"
       bytes |-> StallTar] }

Batches == SeqsUpTo(ImportFiles, MaxBatch)

\* the files of a batch are chosen, while ids are left for their roots
ImportChosen ==
    \E files \in Batches :
       /\ issued + Len(files) <= MaxBatch + 1
       /\ ImportArchives(files)

\* the walk of extractArchiveRecursively, while importArchives waits for it
WalkOfImport ==
    /\ importRun # None
    /\ WalkEnter \/ WalkEntry \/ WalkReturn

NextImport == ImportChosen \/ ImportStep \/ WalkOfImport

SpecImport == Init /\ [][NextImport]_vars

----------------------------------------------------------------------------
(* The tar streams given to parseTarEntries *)

MaxRecords == 3

MaxEntries == 4

\* a header block with a prefix field
TarHeaderWith(name, prefix, sizeText, typeFlag) ==
    [i \in 1..BlockSize |->
        IF i <= Len(name) THEN name[i]
        ELSE IF i > 124 /\ i <= 124 + Len(sizeText) THEN sizeText[i - 124]
        ELSE IF i = 157 THEN typeFlag
        ELSE IF i > 257 /\ i <= 262 THEN <<117, 115, 116, 97, 114>>[i - 257]
        ELSE IF i > 345 /\ i <= 345 + Len(prefix) THEN prefix[i - 345]
        ELSE 0]

TarRecord(typeFlag, name, prefix, sizeText, data) ==
    [typeFlag |-> typeFlag, name |-> name, prefix |-> prefix, sizeText |-> sizeText,
     data |-> data]

\* a record whose size field holds the length of its data
SizedRecord(typeFlag, name, prefix, data) ==
    TarRecord(typeFlag, name, prefix, OctalText(Len(data)), data)

\* the blocks of a record: its header, its data, and the padding to a block
RecordBlocks(rec) ==
    TarHeaderWith(rec.name, rec.prefix, rec.sizeText, rec.typeFlag) \o rec.data
        \o Zeros((BlockSize - (Len(rec.data) % BlockSize)) % BlockSize)

\* the stream ends with two blocks of zeros
TarBytes(stream) ==
    Flatten([k \in 1..Len(stream) |-> RecordBlocks(stream[k])]) \o Zeros(2 * BlockSize)

LongName == <<108, 47, 108, 111, 110, 103, 46, 108, 111, 103>>       \* "l/long.log"

PaxName == <<120, 47, 112, 97, 120, 46, 108, 111, 103>>              \* "x/pax.log"

\* a file, a file with a prefix, a directory, a GNU long name, an empty long
\* name, a PAX record with a path and a PAX record without one
NameRecords ==
    { SizedRecord(48, <<97, 46, 108, 111, 103>>, <<>>, Bytes_hi),              \* "a.log"
      SizedRecord(48, <<98, 46, 108, 111, 103>>, <<112>>, Bytes_hi),      \* "p", "b.log"
      SizedRecord(53, <<100, 47>>, <<>>, <<>>),                                \* "d/"
      SizedRecord(76, <<76>>, <<>>, LongName \o <<0>>),
      SizedRecord(76, <<76>>, <<>>, <<>>),
      SizedRecord(120, <<120>>, <<>>,
                  <<49, 56, 32, 112, 97, 116, 104, 61>> \o PaxName \o <<10>>), \* "18 path="
      SizedRecord(120, <<120>>, <<>>,
                  <<49, 49, 32, 109, 116, 105, 109, 101, 61, 49, 10>>) }     \* "11 mtime=1"

NameStreams == SeqsUpTo(NameRecords, MaxRecords)

\* size fields: empty, not octal, larger than the stream, signed
SizeFields ==
    { <<>>, <<57, 122>>, <<55, 55, 55, 55, 55, 55, 55>>,                \* "", "9z", "7777777"
      <<43, 49, 48>>, <<45, 49, 48, 48, 48>>, <<45, 50, 48, 48, 48>> }  \* "+10", "-1000", "-2000"

\* a file or a long name with the size field, before a file
SizeStreams ==
    { << TarRecord(typeFlag, <<102>>, <<>>, sizeText, Bytes_hi),
         SizedRecord(48, <<97, 46, 108, 111, 103>>, <<>>, Bytes_hi) >> :
        typeFlag \in {48, 76}, sizeText \in SizeFields }

TarStreams == NameStreams \cup SizeStreams

TarCallStep == \E stream \in TarStreams : ParseTarCall(stream, TarBytes(stream))

\* a turn of the loop, while the entries it has pushed are few
TarTurnStep ==
    /\ tar # None
    /\ Len(tar[1].entries) < MaxEntries
    /\ ParseTarTurn(tar[1], NextTurn(tar[1]))

NextTar == TarCallStep \/ TarTurnStep

SpecTar == Init /\ [][NextTar]_vars

----------------------------------------------------------------------------
(* The creations and renamings of workspaces *)

MaxNamings == 3

\* what the user types: "a", " A ", "b", "B" and blanks
NameInputs == {<<97>>, <<32, 65, 32>>, <<98>>, <<66>>, <<32>>}

NamingStep ==
    /\ clock <= MaxNamings
    /\ \/ \E raw \in NameInputs : ConfirmCreate(raw)
       \/ \E raw \in NameInputs, k \in 1..Len(workspaceSummaries) :
             ConfirmRename(workspaceSummaries[k].id, raw)

NextNames == NamingStep \/ CreateStep \/ RenameStep

SpecNames == Init /\ [][NextNames]_vars

----------------------------------------------------------------------------
(* The extraction of the uploads *)

ExtractStep == \E u \in ArchiveUploads : Extract(u.fileName, u.bytes)

WalkStep == WalkEnter \/ WalkEntry \/ WalkReturn

NextArchive == ExtractStep \/ WalkEnter \/ WalkEntry \/ WalkReturn

SpecArchive == Init /\ [][NextArchive]_vars

----------------------------------------------------------------------------
(* Properties of applyIndexDelta *)

StoredEntry(ws, k) == IF MapHas(ws.files, k) THEN Some(MapGet(ws.files, k)) ELSE None

\* what the workspace stores under k: the entry and the signature
Stored(ws, k) == <<StoredEntry(ws, k), SigGet(ws.signatures, k)>>

IsDeltaStep == request' # None /\ request'[1].type = "indexDelta"

AnsweredDelta == request # None /\ request[1].type = "indexDelta"

PayloadKeys(files) == {files[i].fileKey : i \in 1..Len(files)}

\* the entry a key holds after the files are applied in array order to cur
RECURSIVE ExpectedEntry(_, _, _)
ExpectedEntry(cur, files, k) ==
    IF files = <<>> THEN cur
    ELSE IF Head(files).fileKey # k THEN ExpectedEntry(cur, Tail(files), k)
    ELSE IF cur # None /\ cur[1].signature = Head(files).signature
    THEN ExpectedEntry(cur, Tail(files), k)
    ELSE ExpectedEntry(Some(buildIndexedFile(Head(files))), Tail(files), k)

(* C1, as amended: a supplied file is skipped, and the stored entry left as *)
(* it is, when the signature stored as the loop reaches the file (not       *)
(* cleared, not removed, and as left by the earlier files of the request)   *)
(* equals the supplied one, also when the text differs; otherwise its full  *)
(* parse under the supplied signature replaces the entry as a whole.  The   *)
(* entry stored after the call is the one left by the last file of its key  *)
(* that was not skipped.                                                    *)
C1_SkipOrFullParseInOrder ==
    [][IsDeltaStep =>
        LET req  == request'[1]
            pre  == ensureWorkspace(workspaceIndexes, req.workspaceId)
            post == workspaceIndexes'[req.workspaceId]
            Kept(k) == IF req.replace \/ k \in Range(req.removedFileKeys)
                       THEN None ELSE StoredEntry(pre, k)
        IN  \A k \in PayloadKeys(req.files) :
                LET expected == ExpectedEntry(Kept(k), req.files, k)
                IN  Stored(post, k) = <<expected, Some(expected[1].signature)>>]_vars

\* C1 as stated: every supplied file, taken alone against the stored state
C1_Original ==
    [][IsDeltaStep =>
        LET req  == request'[1]
            pre  == ensureWorkspace(workspaceIndexes, req.workspaceId)
            post == workspaceIndexes'[req.workspaceId]
            Unchanged(f) == /\ ~req.replace
                            /\ f.fileKey \notin Range(req.removedFileKeys)
                            /\ SigGet(pre.signatures, f.fileKey) = Some(f.signature)
        IN  \A i \in 1..Len(req.files) :
                IF Unchanged(req.files[i])
                THEN Stored(post, req.files[i].fileKey) = Stored(pre, req.files[i].fileKey)
                ELSE Stored(post, req.files[i].fileKey)
                         = <<Some(buildIndexedFile(req.files[i])),
                             Some(req.files[i].signature)>>]_vars

\* a supplied file was skipped although its text differs from the stored one
C1_Witness ==
    /\ AnsweredDelta
    /\ \E i \in 1..Len(request[1].files) :
          LET f  == request[1].files[i]
              ws == workspaceIndexes[request[1].workspaceId]
          IN  /\ PayloadKeys(request[1].files) = {f.fileKey}
              /\ Len(request[1].files) = 1
              /\ Stored(ws, f.fileKey)[2] = Some(f.signature)
              /\ StoredEntry(ws, f.fileKey)[1].text # f.text

(* C2: after a delta with replace = true the indexed fileKeys are exactly   *)
(* the fileKeys of request.files, whatever was stored before and whatever   *)
(* removedFileKeys lists, and every stored entry is the parse of a payload  *)
(* of this request.                                                         *)
C2_ReplaceKeepsOnlyRequestFiles ==
    (AnsweredDelta /\ request[1].replace) =>
        LET req == request[1]
            ws  == workspaceIndexes[req.workspaceId]
        IN  /\ MapKeys(ws.files) = PayloadKeys(req.files)
            /\ DOMAIN ws.signatures = PayloadKeys(req.files)
            /\ \A e \in Range(ws.files) :
                  \E i \in 1..Len(req.files) :
                      /\ e.key = req.files[i].fileKey
                      /\ e.value = buildIndexedFile(req.files[i])

\* a replacing delta that also lists removals, answered on a non-empty request
C2_Witness ==
    /\ AnsweredDelta
    /\ request[1].replace
    /\ request[1].removedFileKeys # <<>>
    /\ Len(request[1].files) = 1
    /\ Len(workspaceIndexes[request[1].workspaceId].files) = 1

(* C3: removals are applied before additions: a key of removedFileKeys that *)
(* is not in request.files is absent after the call, and a key in both is   *)
(* present, parsed from the text this request supplies for it.              *)
C3_RemovalsBeforeAdditions ==
    AnsweredDelta =>
        LET req == request[1]
            ws  == workspaceIndexes[req.workspaceId]
        IN  \A k \in Range(req.removedFileKeys) :
                IF k \notin PayloadKeys(req.files)
                THEN Stored(ws, k) = <<None, None>>
                ELSE \E i \in 1..Len(req.files) :
                        /\ req.files[i].fileKey = k
                        /\ Stored(ws, k) = <<Some(buildIndexedFile(req.files[i])),
                                             Some(req.files[i].signature)>>

\* a key both removed and supplied is stored, beside a removed key that is gone
C3_Witness ==
    /\ AnsweredDelta
    /\ ~request[1].replace
    /\ \E k \in Range(request[1].removedFileKeys) :
          /\ k \in PayloadKeys(request[1].files)
          /\ MapHas(workspaceIndexes[request[1].workspaceId].files, k)
    /\ \E k \in Range(request[1].removedFileKeys) :
          k \notin PayloadKeys(request[1].files)

----------------------------------------------------------------------------
(* Properties of runSearch *)

AnsweredSearch == request # None /\ request[1].type = "search" /\ outbox # None

\* the files of the searched workspace, in index order
SearchedFiles == workspaceIndexes[request[1].workspaceId].files

BlankQuery(q) == \A i \in 1..Len(q) : IsSpace(q[i])

\* the query with its leading and trailing white space removed
Stripped(q) ==
    IF BlankQuery(q) THEN <<>>
    ELSE SubSeq(q, Least({i \in 1..Len(q) : ~IsSpace(q[i])}),
                   Len(q) + 1 - Least({j \in 1..Len(q) : ~IsSpace(q[Len(q) + 1 - j])}))

Supplied(filters) ==
    {f \in {"level", "pod", "container", "namespace", "timeFrom", "timeTo"} :
        filters[f] # None}

UnclosedGroup(q) == \E i \in 1..Len(q) : q[i] = 40

\* the effective maxResults as the claims state it
EffectiveMax(options) == Min(Max(options.maxResults, 20), 3000)

\* the line matches the query in the mode the options select
LineMatches(line, q, options) ==
    \/ q = <<>>
    \/ IF options.regex
       THEN RegExpTest(CompileRegExp(q, options.caseSensitive)[1], line)
       ELSE IF options.caseSensitive THEN includes(line, q)
       ELSE includes(toLowerCase(line), toLowerCase(q))

ContainsIgnoringCase(field, wanted) ==
    field # None /\ includes(toLowerCase(field[1]), toLowerCase(wanted))

\* the filter semantics of the specification, one conjunct per supplied filter
FiltersPass(meta, filters) ==
    /\ filters.level # None =>
          meta.level # None /\ toLowerCase(meta.level[1]) = toLowerCase(filters.level[1])
    /\ filters.pod # None => ContainsIgnoringCase(meta.pod, filters.pod[1])
    /\ filters.container # None =>
          ContainsIgnoringCase(meta.container, filters.container[1])
    /\ filters.namespace # None =>
          ContainsIgnoringCase(meta.namespace, filters.namespace[1])
    /\ filters.timeFrom # None =>
          meta.timestamp # None /\ filters.timeFrom[1] <= meta.timestamp[1]
    /\ filters.timeTo # None =>
          meta.timestamp # None /\ meta.timestamp[1] <= filters.timeTo[1]

Qualifies(entry, i, req) ==
    /\ LineMatches(entry.lines[i], Stripped(req.query), req.options)
    /\ FiltersPass(entry.lineMetas[i], req.options.filters)

\* the search scans: it is neither the no-op nor a regex that fails to compile
Scans(req) ==
    /\ ~(BlankQuery(req.query) /\ Supplied(req.options.filters) = {})
    /\ ~(req.options.regex /\ UnclosedGroup(req.query))

\* the qualifying lines as <<position of the file in the index, line number>>
QualifyingLines(files, req) ==
    {p \in (1..Len(files)) \X (1..(LongLines + 1)) :
        /\ p[2] <= Len(files[p[1]].value.lines)
        /\ Qualifies(files[p[1]].value, p[2], req)}

InResults(results, fileKey, line) ==
    \E j \in 1..Len(results) : results[j].fileKey = fileKey /\ results[j].line = line

AllBucketsEmpty(agg) ==
    /\ agg.byLevel = <<>> /\ agg.byPod = <<>> /\ agg.byNamespace = <<>>
    /\ agg.bySource = <<>> /\ agg.byTag = <<>>

(* C4: completeness.  When fewer lines qualify than the effective           *)
(* maxResults, every line that matches the query (or the query is empty)    *)
(* and passes all supplied filters is in results; the whole-file pre-check  *)
(* skips no file that holds such a line, in regex mode or in text mode.     *)
C4_Completeness ==
    (AnsweredSearch /\ Scans(request[1])) =>
        LET req == request[1]
            q   == QualifyingLines(SearchedFiles, req)
        IN  Cardinality(q) < EffectiveMax(req.options) =>
                \A p \in q : InResults(outbox[1].results, SearchedFiles[p[1]].key, p[2])

(* C5: soundness.  Every result names a line 1..n of an indexed file of the *)
(* searched workspace that matches the query (or the query is empty) and    *)
(* passes every supplied filter, and no (fileKey, line) pair occurs twice.  *)
C5_Soundness ==
    AnsweredSearch =>
        LET req     == request[1]
            results == outbox[1].results
        IN  /\ \A j \in 1..Len(results) :
                  \E f \in 1..Len(SearchedFiles) :
                      /\ SearchedFiles[f].key = results[j].fileKey
                      /\ results[j].line \in 1..Len(SearchedFiles[f].value.lines)
                      /\ results[j].preview
                            = compressPreview(SearchedFiles[f].value.lines[results[j].line], 160)
                      /\ Qualifies(SearchedFiles[f].value, results[j].line, req)
            /\ \A j, k \in 1..Len(results) :
                  (results[j].fileKey = results[k].fileKey
                      /\ results[j].line = results[k].line) => j = k

\* a regex search with a level filter answered with some but not all lines
C5_Witness ==
    /\ AnsweredSearch
    /\ request[1].options.regex
    /\ request[1].options.filters.level # None
    /\ Len(outbox[1].results) = 2
    /\ Len(SearchedFiles) = 2

(* C6: results never holds more than min(max(maxResults, 20), 3000)         *)
(* entries; when at least that many lines qualify it holds exactly that     *)
(* many, the first ones in scan order, and later files are not visited.     *)
C6_CapReached ==
    (AnsweredSearch /\ Scans(request[1])) =>
        LET req     == request[1]
            results == outbox[1].results
            cap     == EffectiveMax(req.options)
            q       == QualifyingLines(SearchedFiles, req)
        IN  /\ Len(results) <= cap
            /\ Cardinality(q) >= cap =>
                  /\ Len(results) = cap
                  /\ \A p \in q :
                        InResults(results, SearchedFiles[p[1]].key, p[2])
                            \/ \A j \in 1..Len(results) :
                                  \E f \in 1..p[1] :
                                      /\ SearchedFiles[f].key = results[j].fileKey
                                      /\ f = p[1] => results[j].line < p[2]

(* C7: a query that is empty after trimming, with no filter set, is         *)
(* answered with empty results, matchedFiles and timeline, empty            *)
(* aggregation buckets and no error; totalIndexedFiles is the number of     *)
(* indexed files.                                                           *)
C7_EmptyQueryNoFilter ==
    (AnsweredSearch /\ BlankQuery(request[1].query)
                    /\ Supplied(request[1].options.filters) = {}) =>
        /\ outbox[1].results = <<>>
        /\ outbox[1].matchedFiles = <<>>
        /\ outbox[1].timeline = <<>>
        /\ AllBucketsEmpty(outbox[1].aggregations)
        /\ outbox[1].error = None
        /\ outbox[1].totalIndexedFiles = Len(SearchedFiles)

\* a query of white space answered on an index of two files
C7_Witness ==
    /\ AnsweredSearch
    /\ request[1].query = <<32>>
    /\ Supplied(request[1].options.filters) = {}
    /\ outbox[1].totalIndexedFiles = 2
    /\ outbox[1].results = <<>>

IsSearchStep == request' # None /\ request'[1].type = "search"

(* C8: a regex search whose query does not compile is answered with a       *)
(* response whose error is set and whose results, matchedFiles, timeline    *)
(* and aggregation buckets are empty; the index is as it was before, so     *)
(* the worker goes on answering from the same state.                        *)
C8_InvalidRegexIsAValue ==
    [][(IsSearchStep /\ request'[1].options.regex /\ UnclosedGroup(request'[1].query)) =>
          /\ outbox' # None
          /\ outbox'[1].type = "searchResult"
          /\ outbox'[1].requestId = request'[1].requestId
          /\ outbox'[1].error # None
          /\ outbox'[1].results = <<>>
          /\ outbox'[1].matchedFiles = <<>>
          /\ outbox'[1].timeline = <<>>
          /\ AllBucketsEmpty(outbox'[1].aggregations)
          /\ \A w \in {"w1", "w2"} :
                ensureWorkspace(workspaceIndexes', w) = ensureWorkspace(workspaceIndexes, w)
      ]_vars

\* the error response of a regex that does not compile, on a non-empty index
C8_Witness ==
    /\ AnsweredSearch
    /\ request[1].options.regex
    /\ UnclosedGroup(request[1].query)
    /\ outbox[1].error # None
    /\ Len(SearchedFiles) = 2

----------------------------------------------------------------------------
(* Properties of the filters *)

\* the line of the searched file at position f, line i, is in results
Passes(f, i) == InResults(outbox[1].results, SearchedFiles[f].key, i)

LinesOf(f) == 1..Len(SearchedFiles[f].value.lines)

(* C9: with timeFrom and/or timeTo supplied, a line passes exactly when it  *)
(* has a timestamp t with timeFrom <= t and t <= timeTo (each when          *)
(* supplied), for every integer t, 0 and the negative ones included; a      *)
(* line without a timestamp fails.                                          *)
C9_TimeFilters ==
    (AnsweredSearch /\ Supplied(request[1].options.filters) # {}
                    /\ Supplied(request[1].options.filters) \subseteq {"timeFrom", "timeTo"}) =>
        LET filters == request[1].options.filters
        IN  \A f \in 1..Len(SearchedFiles) : \A i \in LinesOf(f) :
                LET t == SearchedFiles[f].value.lineMetas[i].timestamp
                IN  Passes(f, i) <=>
                        /\ t # None
                        /\ filters.timeFrom # None => filters.timeFrom[1] <= t[1]
                        /\ filters.timeTo # None => t[1] <= filters.timeTo[1]

(* C10: the level filter passes exactly the lines whose level equals the    *)
(* filter value ignoring case; pod, container and namespace each pass       *)
(* exactly the lines that have the field with a lower-cased value           *)
(* containing the lower-cased filter value; an unset filter imposes no      *)
(* constraint, and a line passes only if all supplied filters pass.         *)
C10_StructuredFilters ==
    (AnsweredSearch /\ Supplied(request[1].options.filters) # {}) =>
        LET filters == request[1].options.filters
            Structured(meta) ==
                FiltersPass(meta, [filters EXCEPT !.timeFrom = None, !.timeTo = None])
        IN  \A f \in 1..Len(SearchedFiles) : \A i \in LinesOf(f) :
                /\ Passes(f, i) => Structured(SearchedFiles[f].value.lineMetas[i])
                /\ (filters.timeFrom = None /\ filters.timeTo = None) =>
                      (Structured(SearchedFiles[f].value.lineMetas[i]) => Passes(f, i))

\* level and pod are supplied in another case than the line's, and one line passes
C10_Witness ==
    /\ AnsweredSearch
    /\ request[1].options.filters.level = Some(<<119, 97, 114, 110>>)     \* "warn"
    /\ request[1].options.filters.pod = Some(<<100, 98>>)                 \* "db"
    /\ request[1].options.filters.namespace = Some(<<68, 69, 86>>)        \* "DEV"
    /\ Supplied(request[1].options.filters) = {"level", "pod", "namespace"}
    /\ Len(outbox[1].results) = 1

----------------------------------------------------------------------------
(* Properties of the aggregations, matchedFiles and the timeline *)

ErrorFree == AnsweredSearch /\ outbox[1].error = None

\* the results whose optional field f holds v
ResultsWith(results, f, v) == {j \in 1..Len(results) : results[j][f] = Some(v)}

\* the bucket counts, for each value of the optional field f, the results holding it
CountsField(bucket, results, f) ==
    /\ DOMAIN bucket = {results[j][f][1] : j \in {k \in 1..Len(results) : results[k][f] # None}}
    /\ \A v \in DOMAIN bucket :
          bucket[v] = Number(Cardinality(ResultsWith(results, f, v)))

(* C11: in an error-free response byLevel[v], byPod[v], byNamespace[v] and  *)
(* bySource[v] are the numbers of results whose level, pod, namespace and   *)
(* sourceName equal v; a result lacking the field is counted in no bucket.  *)
C11_CountsByField ==
    ErrorFree =>
        LET results == outbox[1].results
            agg     == outbox[1].aggregations
        IN  /\ CountsField(agg.byLevel, results, "level")
            /\ CountsField(agg.byPod, results, "pod")
            /\ CountsField(agg.byNamespace, results, "namespace")
            /\ DOMAIN agg.bySource = {results[j].sourceName : j \in 1..Len(results)}
            /\ \A v \in DOMAIN agg.bySource :
                  agg.bySource[v]
                      = Number(Cardinality({j \in 1..Len(results) : results[j].sourceName = v}))

\* the results whose tags contain t
ResultsTagged(results, t) == {j \in 1..Len(results) : t \in Range(results[j].tags)}

(* C12: in an error-free response byTag[t] is the number of results whose   *)
(* tags contain t: a qualifying line counts once for each tag it carries,   *)
(* and nothing else is added to the bucket.                                 *)
C12_CountsByTag ==
    ErrorFree =>
        LET results == outbox[1].results
            byTag   == outbox[1].aggregations.byTag
        IN  /\ DOMAIN byTag = UNION {Range(results[j].tags) : j \in 1..Len(results)}
            /\ \A t \in DOMAIN byTag :
                  byTag[t] = Number(Cardinality(ResultsTagged(results, t)))

\* the result's line carries a timestamp, a traceId or a spanId
CarriesEvent(r) == r.timestamp # None \/ r.traceId # None \/ r.spanId # None

SameLine(e, r) == e.rootId = r.rootId /\ e.filePath = r.filePath /\ e.line = r.line

(* C13: below the cap of 500 the timeline holds exactly one event for each  *)
(* result whose line carries a timestamp (0 included), a traceId or a       *)
(* spanId, with the rootId, filePath and line of that result, and no event  *)
(* for any other line.                                                      *)
C13_TimelineCollects ==
    ErrorFree =>
        LET results  == outbox[1].results
            timeline == outbox[1].timeline
        IN  Cardinality({j \in 1..Len(results) : CarriesEvent(results[j])}) <= 500 =>
                /\ \A j \in 1..Len(results) :
                      Cardinality({k \in 1..Len(timeline) : SameLine(timeline[k], results[j])})
                          = IF CarriesEvent(results[j]) THEN 1 ELSE 0
                /\ \A k \in 1..Len(timeline) :
                      \E j \in 1..Len(results) : SameLine(timeline[k], results[j])

(* C14: in the timeline of every response the events that have a           *)
(* timestamp come before those that have none, and the timestamps are       *)
(* non-decreasing along the list.                                           *)
C14_TimelineOrdered ==
    AnsweredSearch =>
        LET timeline == outbox[1].timeline
        IN  \A k, l \in 1..Len(timeline) :
                k < l =>
                    /\ timeline[l].timestamp # None => timeline[k].timestamp # None
                    /\ (timeline[k].timestamp # None /\ timeline[l].timestamp # None) =>
                          timeline[k].timestamp[1] <= timeline[l].timestamp[1]

\* events collected as 2, 1, untimed, 1 are returned as 1, 1, 2, untimed
C14_Witness ==
    /\ AnsweredSearch
    /\ Len(outbox[1].results) >= 4
    /\ outbox[1].results[1].timestamp = Some(2)
    /\ outbox[1].results[2].timestamp = Some(1)
    /\ Len(outbox[1].timeline) >= 4
    /\ outbox[1].timeline[1].timestamp = Some(1)
    /\ outbox[1].timeline[3].timestamp = Some(2)
    /\ outbox[1].timeline[4].timestamp = None
    /\ \E j \in 1..Len(outbox[1].results) :
          /\ outbox[1].results[j].timestamp = None
          /\ outbox[1].results[j].traceId # None
          /\ \E k \in (j + 1)..Len(outbox[1].results) :
                outbox[1].results[k].timestamp # None

(* C15: in the timeline of every response two events with equal            *)
(* timestamps, and two events that both lack a timestamp, are in the order  *)
(* of the lexical comparison of their ids, the smaller id first.            *)
C15_TiesById ==
    AnsweredSearch =>
        LET timeline == outbox[1].timeline
        IN  \A k, l \in 1..Len(timeline) :
                (k < l /\ timeline[k].timestamp = timeline[l].timestamp) =>
                    localeCompare(timeline[k].id, timeline[l].id) <= 0

\* the line an event or a result stands for
LineKey(x) == <<x.rootId, x.filePath, x.line>>

\* a sorts strictly before b by the timestamps alone
TimedBefore(a, b) ==
    /\ a.timestamp # None
    /\ b.timestamp # None => a.timestamp[1] < b.timestamp[1]

(* C16: the timeline of a response never holds more than 500 events; when   *)
(* the results carry more than 500 events, it holds 500 of them, one per    *)
(* line, in sorted order, and no event left out sorts before a kept one:    *)
(* it is the first 500 of the sorted list.                                  *)
C16_TimelineCapped ==
    ErrorFree =>
        LET results   == outbox[1].results
            timeline  == outbox[1].timeline
            collected == {j \in 1..Len(results) : CarriesEvent(results[j])}
            kept      == {LineKey(timeline[k]) : k \in 1..Len(timeline)}
        IN  /\ Len(timeline) <= TimelineLimit
            /\ Cardinality(collected) > TimelineLimit =>
                  /\ Len(timeline) = TimelineLimit
                  /\ Cardinality(kept) = TimelineLimit
                  /\ kept \subseteq {LineKey(results[j]) : j \in collected}
                  /\ \A k \in 1..(Len(timeline) - 1) :
                        ~TimedBefore(timeline[k + 1], timeline[k])
                  /\ \A j \in collected :
                        LineKey(results[j]) \notin kept =>
                            \A k \in 1..Len(timeline) :
                                ~TimedBefore(results[j], timeline[k])

(* the untimed event collected first and the event with the largest         *)
(* timestamp, collected second, are the ones that the cap cuts off          *)
C16_Witness ==
    /\ ErrorFree
    /\ Len(outbox[1].results) > TimelineLimit + 1
    /\ outbox[1].results[1].timestamp = None
    /\ outbox[1].results[1].traceId # None
    /\ outbox[1].results[2].timestamp = Some(TimelineLimit + OverCap)
    /\ Len(outbox[1].timeline) = TimelineLimit
    /\ outbox[1].timeline[1].timestamp = Some(1)
    /\ outbox[1].timeline[TimelineLimit].timestamp = Some(TimelineLimit)

(* C17: in every response matchedFiles lists, once each, exactly the        *)
(* fileKeys that occur in results, and totalIndexedFiles is the number of   *)
(* files the workspace index held when the search ran.                      *)
C17_MatchedFilesAndTotal ==
    AnsweredSearch =>
        LET results      == outbox[1].results
            matchedFiles == outbox[1].matchedFiles
        IN  /\ \A k, l \in 1..Len(matchedFiles) :
                  matchedFiles[k] = matchedFiles[l] => k = l
            /\ Range(matchedFiles) = {results[j].fileKey : j \in 1..Len(results)}
            /\ outbox[1].totalIndexedFiles = Len(SearchedFiles)

\* two files are indexed, and the several results all come from one of them
C17_Witness ==
    /\ AnsweredSearch
    /\ Len(SearchedFiles) = 2
    /\ outbox[1].totalIndexedFiles = 2
    /\ Len(outbox[1].results) >= 2
    /\ Len(outbox[1].matchedFiles) = 1
    /\ \E i \in 1..2 :
          /\ SearchedFiles[i].key # outbox[1].matchedFiles[1]
          /\ Len(SearchedFiles[i].value.lines) >= 1

\* the files of all workspace indexes
StoredFiles ==
    UNION {{workspaceIndexes[w].files[i].value :
               i \in 1..Len(workspaceIndexes[w].files)} : w \in DOMAIN workspaceIndexes}

\* the lines of the file that carry the tag
LinesTagged(entry, tag) ==
    {i \in 1..Len(entry.lineMetas) : tag \in Range(entry.lineMetas[i].tags)}

(* C18: the anomalyTags of an indexed file hold retry_storm exactly when     *)
(* at least 20 of its lines are tagged retry, a line counting once however   *)
(* many of the retry words it has; the other anomalyTags are the tags that   *)
(* occur on some line of the file.                                           *)
C18_RetryStorm ==
    \A entry \in StoredFiles :
        /\ "retry_storm" \in Range(entry.anomalyTags)
              <=> Cardinality(LinesTagged(entry, "retry")) >= 20
        /\ Range(entry.anomalyTags) \ {"retry_storm"}
              = UNION {Range(entry.lineMetas[i].tags) : i \in 1..Len(entry.lineMetas)}

(* one file has 19 lines tagged retry and no retry_storm, another has 20    *)
(* and retry_storm; both have lines with "retry" and "backoff" at once      *)
C18_Witness ==
    \E a, b \in StoredFiles :
        /\ Cardinality(LinesTagged(a, "retry")) = 19
        /\ "retry_storm" \notin Range(a.anomalyTags)
        /\ "timeout" \in Range(a.anomalyTags)
        /\ Cardinality(LinesTagged(b, "retry")) = 20
        /\ "retry_storm" \in Range(b.anomalyTags)
        /\ \A e \in {a, b} :
              \E i \in 1..Len(e.lines) :
                  /\ includes(e.lines[i], <<114, 101, 116, 114, 121>>)    \* "retry"
                  /\ includes(e.lines[i], <<98, 97, 99, 107, 111, 102, 102>>)

----------------------------------------------------------------------------
(* Properties of the archive extraction *)

\* the invocations are nested by one level each, none deeper than 13, and
\* only those at depths 0..12 hold decoded entries
DepthBounded ==
    /\ Len(calls) <= 14
    /\ \A k \in 1..Len(calls) :
          /\ calls[k].depth = k - 1
          /\ calls[k].depth <= 13
          /\ calls[k].entries # None => calls[k].depth <= 12

\* the step of an invocation at depth 13: one more leaf, the bytes as they
\* came, the path joined from basePath and the base name, and the return
CapLeafStep ==
    (calls # <<>> /\ calls[Len(calls)].depth = 13) =>
        /\ Len(output') = Len(output) + 1
        /\ SubSeq(output', 1, Len(output)) = output
        /\ output'[Len(output')].bytes = calls[Len(calls)].bytes
        /\ output'[Len(output')].path
              = joinPath(<<calls[Len(calls)].basePath, getBaseName(calls[Len(calls)].fileName)>>)
        /\ Len(calls') = Len(calls) - 1
        /\ \A k \in 1..Len(calls') : calls'[k].entries = calls[k].entries

\* the innermost invocation is inside a decoder that never returns
InEndlessDecode ==
    /\ calls # <<>>
    /\ calls[Len(calls)].entries = None
    /\ calls[Len(calls)].depth <= MAX_DEPTH
    /\ parseArchiveEntries(calls[Len(calls)].fileName,
                           calls[Len(calls)].bytes).outcome = "hangs"

\* what is left to do in an invocation: <<1, 0>> before its decoder has
\* returned, then <<0, n>> with n the entries of its loop not yet finished
Remaining(frame) ==
    IF frame.entries = None THEN <<1, 0>>
    ELSE <<0, Len(frame.entries[1]) + 1 - frame.next>>

LessLeft(a, b) == a[1] < b[1] \/ (a[1] = b[1] /\ a[2] < b[2])

\* the stack after comes before the stack before in the order that compares
\* the outermost invocations first and puts a longer stack before its prefix
Progressed(before, after) ==
    \/ after = <<>>
    \/ /\ Len(after) > Len(before)
       /\ \A k \in 1..Len(before) : Remaining(after[k]) = Remaining(before[k])
    \/ \E k \in 1..Min(Len(before), Len(after)) :
          /\ LessLeft(Remaining(after[k]), Remaining(before[k]))
          /\ \A j \in 1..(k - 1) : Remaining(after[j]) = Remaining(before[j])

\* every step of a running extraction brings it nearer to its end
WalkProgress == extraction = "running" => Progressed(calls, calls')

(* C19: walkArchive decodes containers at depths 0..12 only; invoked with   *)
(* depth 13 it decodes nothing and emits one leaf with the bytes unchanged  *)
(* at join(basePath, baseName(filename)); so the recursion is never deeper  *)
(* than 13 and every extraction comes to its end: a running extraction is   *)
(* never inside a step that does not return, and each step it takes leaves  *)
(* less to do.                                                              *)
C19_DepthCapAndTermination ==
    /\ []DepthBounded
    /\ [][CapLeafStep]_vars
    /\ [](extraction = "running" => ~InEndlessDecode)
    /\ [][WalkProgress]_vars

\* the paths and bytes of the extracted files, in output order
Leaves(files) == [k \in 1..Len(files) |-> [path |-> files[k].path, bytes |-> files[k].bytes]]

(* C20: an entry with an archive extension whose bytes are no archive of    *)
(* that kind does not stop the extraction: the output has one leaf for it,  *)
(* at its merged path and with its bytes, none from inside it, and the      *)
(* sibling entry is extracted as usual.                                     *)
C20_NestedFallback ==
    \A kind \in {"zip", "tar"}, m \in BrokenMembers :
        upload = Some(BrokenUpload(kind, m)) =>
            /\ extraction # "threw"
            /\ extraction = "returned" =>
                  Leaves(output) = << [path |-> m.name, bytes |-> m.data],
                                      [path |-> Sibling.name, bytes |-> Sibling.data] >>

----------------------------------------------------------------------------
(* Properties of the indexStatus response and of the context lines *)

\* the number of the files, taken in array order from the state ws, that the
\* loop of applyIndexDelta does not skip
RECURSIVE Reparsed(_, _)
Reparsed(ws, files) ==
    IF files = <<>> THEN 0
    ELSE (IF SigGet(ws.signatures, Head(files).fileKey) = Some(Head(files).signature)
          THEN 0 ELSE 1)
         + Reparsed(ApplyFile(ws, Head(files)), Tail(files))

(* C29: changedFiles of the indexStatus response is the number of supplied  *)
(* files that this delta re-parsed and stored; the files skipped for an     *)
(* unchanged signature are not counted.                                     *)
C29_ChangedFilesCount ==
    [][IsDeltaStep =>
        outbox'[1].changedFiles
            = Reparsed(RemoveKeys(ClearIfReplace(ensureWorkspace(workspaceIndexes,
                                                                 request'[1].workspaceId),
                                                 request'[1].replace),
                                  request'[1].removedFileKeys),
                       request'[1].files)]_vars

\* the lines of the file at the 0-based indices lo .. hi, in file order
LinesAt(lines, lo, hi) == [k \in 1..(hi - lo + 1) |-> lines[lo + k]]

(* C30: for a result at the 0-based index i of a file of n lines, with      *)
(* c = min(max(contextLines, 0), 8): before is the lines max(0, i-c)..i-1,  *)
(* after is the lines i+1..min(n-1, i+c), so |before| = min(c, i) and       *)
(* |after| = min(c, n-1-i); line is i+1 and id is fileKey:i.                *)
C30_ContextLines ==
    AnsweredSearch =>
        \A j \in 1..Len(outbox[1].results) :
            LET r == outbox[1].results[j]
                e == MapGet(SearchedFiles, r.fileKey)
                n == Len(e.lines)
                i == r.line - 1
                c == Min(Max(request[1].options.contextLines, 0), 8)
            IN  /\ i \in 0..(n - 1)
                /\ r.before = LinesAt(e.lines, Max(0, i - c), i - 1)
                /\ r.after = LinesAt(e.lines, i + 1, Min(n - 1, i + c))
                /\ Len(r.before) = Min(c, i)
                /\ Len(r.after) = Min(c, n - 1 - i)
                /\ r.id = r.fileKey \o <<58>> \o DecimalString(i)

\* contextLines above 8: one result has 8 lines on both sides, one is cut
\* short by the start of the file and one by its end, past index 9
C30_Witness ==
    /\ AnsweredSearch
    /\ request[1].options.contextLines > MaxContextLines
    /\ \E j \in 1..Len(outbox[1].results) :
          Len(outbox[1].results[j].before) = 8 /\ Len(outbox[1].results[j].after) = 8
    /\ \E j \in 1..Len(outbox[1].results) :
          Len(outbox[1].results[j].before) \in 1..7
    /\ \E j \in 1..Len(outbox[1].results) :
          outbox[1].results[j].line > 10 /\ Len(outbox[1].results[j].after) \in 1..7

----------------------------------------------------------------------------
(* Properties of the worker behind its queue *)

\* only the worker adds to outbox
IsWorkerStep == Len(outbox') = Len(outbox) + 1

\* the index is as before, but for an empty entry ensureWorkspace registers
SameIndexes(before, after, w) ==
    /\ DOMAIN after = DOMAIN before \cup {w}
    /\ \A v \in DOMAIN after :
          after[v] = IF v \in DOMAIN before THEN before[v] ELSE EmptyWorkspace

(* C26: the worker handles the requests one at a time in arrival order.  A  *)
(* step of the worker takes the oldest request and adds one response: for   *)
(* a search the response of runSearch on the index as all earlier requests  *)
(* left it, with the requestId of the request, the index unchanged; for an  *)
(* indexDelta the status with its workspaceId, the workspace as the whole   *)
(* delta leaves it and the others untouched.  No other step changes the     *)
(* index, answers, or takes a request away.                                 *)
C26_OneAtATimeInOrder ==
    [][IF IsWorkerStep
       THEN /\ inbox # <<>>
            /\ inbox' = Tail(inbox)
            /\ outbox' = Append(outbox, outbox'[Len(outbox')])
            /\ LET req  == Head(inbox)
                   resp == outbox'[Len(outbox')]
               IN  IF req.type = "search"
                   THEN /\ resp.type = "searchResult"
                        /\ resp.requestId = req.requestId
                        /\ resp = runSearch(ensureWorkspace(workspaceIndexes,
                                                            req.workspaceId), req)
                        /\ SameIndexes(workspaceIndexes, workspaceIndexes', req.workspaceId)
                   ELSE /\ resp.type = "indexStatus"
                        /\ resp.workspaceId = req.workspaceId
                        /\ resp.indexedFiles
                              = Len(DeltaWorkspace(workspaceIndexes, req).files)
                        /\ workspaceIndexes'
                              = WithWorkspace(workspaceIndexes, req.workspaceId,
                                              DeltaWorkspace(workspaceIndexes, req))
       ELSE /\ workspaceIndexes' = workspaceIndexes
            /\ Len(outbox') <= Len(outbox)
            /\ inbox' = inbox \/ (Len(inbox') = Len(inbox) + 1
                                  /\ SubSeq(inbox', 1, Len(inbox)) = inbox)]_vars

\* a search was answered while a delta posted after it still waits, on an
\* index that an earlier delta of the same workspace has filled
C26_Witness ==
    /\ request # None /\ request[1].type = "search"
    /\ inbox # <<>> /\ inbox[1].type = "indexDelta"
    /\ inbox[1].workspaceId = request[1].workspaceId
    /\ outbox # <<>>
    /\ outbox[Len(outbox)].type = "searchResult"
    /\ outbox[Len(outbox)].results # <<>>
    /\ DeltaWorkspace(workspaceIndexes, inbox[1]) # workspaceIndexes[request[1].workspaceId]

----------------------------------------------------------------------------
(* Properties of the extracted paths *)

MacosxFolder == <<95, 95, 77, 65, 67, 79, 83, 88>>                    \* "__MACOSX"

\* the path names macOS metadata: it lies under a __MACOSX folder, or its
\* base name starts with "._" or is ".DS_Store"
IsMetadataPath(path) ==
    LET segments == Split(path, 47)
    IN  \/ \E k \in 1..(Len(segments) - 1) : segments[k] = MacosxFolder
        \/ startsWith(segments[Len(segments)], <<46, 95>>)
        \/ segments[Len(segments)] = <<46, 68, 83, 95, 83, 116, 111, 114, 101>>

(* C22: no extracted file lies under a __MACOSX folder, wherever in its     *)
(* entry path the folder occurs, has a base name starting with "._" or has  *)
(* the base name ".DS_Store", for every kind of container and at every      *)
(* nesting level.                                                           *)
C22_NoMetadataFiles == \A k \in 1..Len(output) : ~IsMetadataPath(output[k].path)

\* the path is joined with "/" from segments none of which is empty, ".",
\* ".." or holds a backslash
IsNormalized(path) ==
    /\ path # <<>>
    /\ \A segment \in Range(Split(path, 47)) :
          /\ segment # <<>>
          /\ segment # <<46>>
          /\ segment # <<46, 46>>
          /\ \A i \in 1..Len(segment) : segment[i] # 92

(* C23: every path of an extracted file is normalized: not empty, joined    *)
(* with "/", without an empty, "." or ".." segment and without a backslash, *)
(* whatever names the entries of the containers carry.                      *)
C23_PathsNormalized == \A k \in 1..Len(output) : IsNormalized(output[k].path)

\* C23 witness: the extraction of a zip file has returned the leaves of
\* entries named with a parent reference, an absolute path, a backslash and
\* doubled separators
C23_Witness ==
    /\ extraction = "returned"
    /\ upload # None
    /\ upload[1].fileName = UploadName("zip")
    /\ \E k \in 1..Len(output) :
          output[k].path = <<117, 112, 46, 108, 111, 103>>                     \* "up.log"
    /\ \E k \in 1..Len(output) :
          output[k].path = <<97, 98, 115, 47, 97, 46, 108, 111, 103>>          \* "abs/a.log"
    /\ \E k \in 1..Len(output) :
          output[k].path = <<119, 47, 98, 46, 108, 111, 103>>                  \* "w/b.log"
    /\ \E k \in 1..Len(output) :
          output[k].path = <<101, 47, 102, 46, 108, 111, 103>>                 \* "e/f.log"
    /\ \E k \in 1..Len(output) :
          output[k].path = <<100, 47, 105, 110, 47, 122, 46, 108, 111, 103>>   \* "d/in/z.log"

\* the path of the entry an invocation is at, as walkArchive takes it
TakenPath(frame) == normalizePath(frame.entries[1][frame.next].path)

\* join(strip(p1), ..., strip(pk), q) for the entry paths given from the
\* outermost container to the leaf
JoinedLayers(paths) ==
    joinPath([j \in 1..Len(paths) |->
                 IF j < Len(paths) THEN stripArchiveExtension(paths[j]) ELSE paths[j]])

\* the loop of an invocation inside 1..12 nested containers pushes a leaf
PushesLeaf ==
    /\ Len(calls) \in 2..(MAX_DEPTH + 1)
    /\ Len(calls') = Len(calls)
    /\ Len(output') = Len(output) + 1

\* a container that was decoded is not in the output while it is walked,
\* and the return from it adds nothing
ContainerNotEmitted ==
    \A j \in 1..(Len(calls) - 1) :
        calls[j + 1].entries # None => EntryLeaf(calls[j]) \notin Range(output)

ReturnAddsNothing ==
    (calls # <<>> /\ calls[Len(calls)].entries # None /\ Len(calls') < Len(calls))
        => output' = output

(* C24: for a leaf at inner path q reached through nested containers at the *)
(* entry paths p1..pk (1 <= k <= 12) of their parents, the virtual path is  *)
(* join(strip(p1), ..., strip(pk), q), strip removing the archive           *)
(* extension, and the archive file itself is not emitted.                   *)
C24_NestedVirtualPath ==
    /\ [][PushesLeaf =>
            output'[Len(output')].path
                = JoinedLayers([j \in 1..Len(calls) |-> TakenPath(calls[j])])]_vars
    /\ []ContainerNotEmitted
    /\ [][ReturnAddsNothing]_vars

\* C24 witness: the leaf x.log under 12 nested containers named n.* is in
\* the output, as the first file, while the innermost container is walked
C24_Witness ==
    /\ Len(calls) = MAX_DEPTH + 1
    /\ calls[Len(calls)].entries # None
    /\ Len(output) = 1
    /\ output[1].path = Join([j \in 1..MAX_DEPTH |-> <<110>>] \o <<<<120, 46, 108, 111, 103>>>>,
                             <<47>>)

----------------------------------------------------------------------------
(* Properties of the workspace names *)

\* no two summaries have the same name after trimming and lower-casing
UniqueNames(summaries) ==
    \A i, j \in 1..Len(summaries) :
        i # j => normalizeWorkspaceName(summaries[i].name)
                    # normalizeWorkspaceName(summaries[j].name)

(* C28: after any sequence and interleaving of creations and renamings of   *)
(* workspaces, no two workspaces of the workspace index have the same name  *)
(* when names are compared after trimming and lower-casing; a creation or   *)
(* renaming that would make such a pair is rejected and changes nothing.    *)
C28_UniqueWorkspaceNames == UniqueNames(storedIndex)

----------------------------------------------------------------------------
(* Properties of the indexing passes of the page *)

\* the entry of the worker for a file of a workspace, if it has one
WorkerEntry(indexes, workspaceId, fileKey) ==
    IF MapHas(ensureWorkspace(indexes, workspaceId).files, fileKey)
    THEN Some(MapGet(ensureWorkspace(indexes, workspaceId).files, fileKey))
    ELSE None

\* the entry of the signature map of the page for a file, if it has one
RecordedSignature(all, workspaceId, fileKey) ==
    IF MapHas(SignaturesOf(all, workspaceId), fileKey)
    THEN Some(MapGet(SignaturesOf(all, workspaceId), fileKey))
    ELSE None

SentIn(delta, entry) ==
    \E k \in 1..Len(delta.files) :
        /\ delta.files[k].fileKey = entry.fileKey
        /\ delta.files[k].signature = entry.signature
        /\ delta.files[k].text = DiskText(entry.fileKey)

\* the step in which pass k reads its last file and posts its indexDelta:
\* a changed file whose read failed is not in the message and keeps the
\* entry it had in the signature map, every other changed file is in the
\* message and recorded under its signature
PassPostsReadFiles(k) ==
    (/\ passes[k].at = Len(passes[k].changedFiles)
     /\ Len(passes') = Len(passes) - 1) =>
        /\ Len(inbox') = Len(inbox) + 1
        /\ inbox'[Len(inbox')].type = "indexDelta"
        /\ Len(inbox'[Len(inbox')].files)
              = Cardinality({j \in 1..Len(passes[k].changedFiles) :
                                passes[k].changedFiles[j].fileKey \notin unreadable})
        /\ \A j \in 1..Len(passes[k].changedFiles) :
              IF passes[k].changedFiles[j].fileKey \in unreadable
              THEN /\ \A i \in 1..Len(inbox'[Len(inbox')].files) :
                         inbox'[Len(inbox')].files[i].fileKey
                            # passes[k].changedFiles[j].fileKey
                   /\ RecordedSignature(indexedSignatures', passes[k].workspaceId,
                                        passes[k].changedFiles[j].fileKey)
                         = RecordedSignature(indexedSignatures, passes[k].workspaceId,
                                             passes[k].changedFiles[j].fileKey)
                   /\ RecordedSignature(indexedSignatures', passes[k].workspaceId,
                                        passes[k].changedFiles[j].fileKey)
                         # Some(passes[k].changedFiles[j].signature)
              ELSE /\ SentIn(inbox'[Len(inbox')], passes[k].changedFiles[j])
                   /\ RecordedSignature(indexedSignatures', passes[k].workspaceId,
                                        passes[k].changedFiles[j].fileKey)
                         = Some(passes[k].changedFiles[j].signature)

\* the step in which a pass starts: every indexable file of the roots that
\* is not recorded under its signature is among the files it reads
PassRetriesUnrecorded ==
    Len(passes') = Len(passes) + 1 =>
        \A j \in 1..Len(AllTextFiles(roots)) :
            IsRecorded(SignaturesOf(indexedSignatures, activeWorkspaceId),
                       AllTextFiles(roots)[j].fileKey, AllTextFiles(roots)[j].signature)
            \/ \E i \in 1..Len(passes'[Len(passes')].changedFiles) :
                  passes'[Len(passes')].changedFiles[i] = AllTextFiles(roots)[j]

\* the step in which the worker handles an indexDelta of the page: a file
\* of the message is indexed under its signature, a file of the roots that
\* is not in the message keeps its entry or stays absent
WorkerKeepsUnsent ==
    (inbox # <<>> /\ Head(inbox).type = "indexDelta" /\ inbox' = Tail(inbox)) =>
        \A j \in 1..Len(AllTextFiles(roots)) :
            IF \E i \in 1..Len(Head(inbox).files) :
                  Head(inbox).files[i].fileKey = AllTextFiles(roots)[j].fileKey
            THEN /\ WorkerEntry(workspaceIndexes', Head(inbox).workspaceId,
                                AllTextFiles(roots)[j].fileKey) # None
                 /\ WorkerEntry(workspaceIndexes', Head(inbox).workspaceId,
                                AllTextFiles(roots)[j].fileKey)[1].signature
                       = AllTextFiles(roots)[j].signature
            ELSE WorkerEntry(workspaceIndexes', Head(inbox).workspaceId,
                             AllTextFiles(roots)[j].fileKey)
                    = WorkerEntry(workspaceIndexes, Head(inbox).workspaceId,
                                  AllTextFiles(roots)[j].fileKey)

(* C27: a changed file whose read fails in buildSearchIndex is left out of  *)
(* the indexDelta and is not recorded under its new signature in the        *)
(* signature map of the page, so that the next pass reads it again and the  *)
(* worker keeps the entry it had for it, or none; the other changed files   *)
(* of the pass are sent and indexed.                                        *)
C27_FailedReadIsRetried ==
    /\ [][\A k \in 1..Len(passes) : PassPostsReadFiles(k)]_vars
    /\ [][PassRetriesUnrecorded]_vars
    /\ [][WorkerKeepsUnsent]_vars

\* C27 witness: both roots are in the workspace, r1::a is unreadable and a
\* pass over both files has ended: the worker has indexed r2::a alone and
\* the signature map records r2::a alone
C27_Witness ==
    /\ Len(roots) = 2
    /\ unreadable = FlakyFiles
    /\ passes = <<>>
    /\ inbox = <<>>
    /\ MapKeyList(SignaturesOf(indexedSignatures, "w1")) = <<<<114, 50, 58, 58, 97>>>>
    /\ MapKeyList(ensureWorkspace(workspaceIndexes, "w1").files)
          = <<<<114, 50, 58, 58, 97>>>>

----------------------------------------------------------------------------
(* Properties of the searches of the page *)

\* the id of the search issued last: createId has made issued ids
LastIssuedSearch == <<"search", issued>>

(* C25: a searchResult message changes the displayed search state (results, *)
(* matched files, timeline, aggregation, error) only if its requestId is    *)
(* the id of the search issued last: once a second search is issued the     *)
(* response to the first is never applied, whenever it arrives.             *)
C25_OnlyLatestResultApplied ==
    [][(/\ outbox # <<>>
        /\ Head(outbox).type = "searchResult"
        /\ outbox' = Tail(outbox)
        /\ Head(outbox).requestId # LastIssuedSearch)
          => searchView' = searchView]_vars

\* C25 witness: the response to an earlier search, with results, is the next
\* message of the page, which waits for the response to a later search
C25_Witness ==
    /\ outbox # <<>>
    /\ Head(outbox).type = "searchResult"
    /\ Head(outbox).requestId # LastIssuedSearch
    /\ Head(outbox).results # <<>>
    /\ searchView.searching
    /\ searchView.results = <<>>

----------------------------------------------------------------------------
(* Properties of the imports of batches *)

\* the file the loop of importArchives stands at
FileAt(run) == run.files[run.fileIndex]

\* the step that ends the body of the loop for a file whose decoding threw
\* adds no root
FailedAddsNoRoot ==
    (importRun # None /\ importRun[1].at = "extractArchiveRecursively"
        /\ extraction = "threw" /\ importRun' # importRun)
    => roots' = roots

\* the step that ends the body of the loop for a file that was decoded to
\* files adds one root for it, of files that were extracted from it, unless
\* none of them could be written
DecodedAddsRoot ==
    (importRun # None /\ importRun[1].at = "extractArchiveRecursively"
        /\ extraction = "returned" /\ output # <<>> /\ importRun' # importRun)
    => \/ roots' = roots
       \/ /\ Len(roots') = Len(roots) + 1
          /\ SubSeq(roots', 1, Len(roots)) = roots
          /\ roots'[Len(roots')].sourceName = FileAt(importRun[1]).fileName
          /\ roots'[Len(roots')].files # <<>>
          /\ \A k \in 1..Len(roots'[Len(roots')].files) :
                \E j \in 1..Len(output) :
                   roots'[Len(roots')].files[k].path = output[j].path

\* the loop goes on to the next file whatever the outcome of a file was
LoopGoesOn ==
    (importRun # None /\ importRun[1].at = "extractArchiveRecursively"
        /\ importRun' # importRun)
    => /\ importRun' # None
       /\ importRun'[1].fileIndex = importRun[1].fileIndex + 1
       /\ importRun'[1].files = importRun[1].files

\* an import under way can take a step: the decoder of its file is not in a
\* loop that does not end
ImportNotStuck ==
    (importRun # None /\ importRun[1].at = "extractArchiveRecursively")
       => ~InEndlessDecode

\* the flag is set exactly while an import is under way
FlagFollowsImport == importing <=> importRun # None

\* C21: in importArchives on a batch, a file whose decoding fails adds no
\* root, every other file of the batch, before and after it, is still
\* processed and added as a root, and the import ends with the importing
\* flag cleared
C21_BatchSurvivesFailedArchive ==
    /\ [][FailedAddsNoRoot /\ DecodedAddsRoot /\ LoopGoesOn]_vars
    /\ [](ImportNotStuck /\ FlagFollowsImport)

----------------------------------------------------------------------------
(* Properties of the choice of the decoder *)

\* the entries of the format the extension of the name stands for, and of
\* the format the leading bytes stand for when the name has no such extension
ByExtensionFirst(fileName, bytes) ==
    IF isZipFile(getBaseName(fileName)) THEN ZipEntriesOf(unzipSync(bytes))
    ELSE IF isTarGzFile(getBaseName(fileName)) THEN TarEntriesOf(gunzipSync(bytes))
    ELSE IF isTarFile(getBaseName(fileName)) THEN parseTarEntries(bytes)
    ELSE IF hasZipSignature(bytes) THEN ZipEntriesOf(unzipSync(bytes))
    ELSE IF hasGzipSignature(bytes) THEN TarEntriesOf(gunzipSync(bytes))
    ELSE IF hasTarSignature(bytes) THEN parseTarEntries(bytes)
    ELSE Throws

(* C33: parseArchiveEntries chooses the decoder by the extension of the     *)
(* name first: a name ending in .zip, .tar.gz/.tgz or .tar is decoded as    *)
(* that format whatever its leading bytes are, and the magic bytes decide   *)
(* only when the name has none of these extensions.                         *)
C33_ExtensionBeforeMagic ==
    \A k \in 1..Len(calls) :
       (calls[k].entries = None /\ calls[k].depth <= MAX_DEPTH)
          => parseArchiveEntries(calls[k].fileName, calls[k].bytes)
                = ByExtensionFirst(calls[k].fileName, calls[k].bytes)

----------------------------------------------------------------------------
(* Properties of parseTarEntries *)

\* the call of parseTarEntries is at a turn of its loop
AtTurn == tar # None /\ tar[1].at = "while" /\ LoopGoes(tar[1].bytes, tar[1].offset)

(* C34: parseTarEntries terminates on every input: at each turn of the loop *)
(* the offset increases by at least 512, whatever the size field holds      *)
(* (nothing, no octal number, a number beyond the input, a sign), and the   *)
(* loop ends at the first header block of zeros or when fewer than 512      *)
(* bytes remain.                                                            *)
C34_OffsetAdvances ==
    AtTurn => NextTurn(tar[1]).offset >= tar[1].offset + BlockSize

\* the bytes a record takes in the stream
BlocksOf(rec) == BlockSize + CeilBlocks(Len(rec.data)) * BlockSize

RECURSIVE StreamOffset(_, _)
\* the offset of the header of record k
StreamOffset(stream, k) ==
    IF k = 1 THEN 0 ELSE StreamOffset(stream, k - 1) + BlocksOf(stream[k - 1])

\* the record whose header the loop is at
RecordAt(run) ==
    CHOOSE k \in 1..Len(run.stream) : StreamOffset(run.stream, k) = run.offset

IsExtension(rec) == rec.typeFlag \in {76, 120}

RECURSIVE RunStart(_, _)
\* the first of the 'L' and 'x' records that precede record k without
\* another record between
RunStart(stream, k) ==
    IF k = 1 \/ ~IsExtension(stream[k - 1]) THEN k ELSE RunStart(stream, k - 1)

\* the 'L' records before record k
LongRecords(stream, k) ==
    {j \in RunStart(stream, k)..(k - 1) : stream[j].typeFlag = 76}

\* the 'x' records with a path before record k
PaxRecords(stream, k) ==
    {j \in RunStart(stream, k)..(k - 1) :
        /\ stream[j].typeFlag = 120
        /\ PaxPath(stream[j].data) # None
        /\ PaxPath(stream[j].data)[1] # <<>>}

\* the name an 'L' record carries
LongNameOf(rec) == readAscii(rec.data, 0, Len(rec.data))

\* prefix/name when the prefix field is not empty, name otherwise
HeaderName(rec) ==
    IF rec.prefix # <<>> THEN rec.prefix \o <<47>> \o rec.name ELSE rec.name

\* the loop is at the header of a record that is neither 'L' nor 'x', in a
\* stream whose size fields hold the sizes
AtEntry ==
    /\ AtTurn
    /\ tar[1].stream \in NameStreams
    /\ ~IsExtension(tar[1].stream[RecordAt(tar[1])])

\* the turn leaves an entry under the normalized name, or none when the
\* normalized name is empty
TurnNames(name) ==
    /\ tar' # None
    /\ tar'[1].entries # tar[1].entries => tar'[1].entries[Len(tar'[1].entries)].path = normalizePath(name)
    /\ Len(tar'[1].entries) = Len(tar[1].entries) + (IF normalizePath(name) = <<>> THEN 0 ELSE 1)

\* every 'L' record before the entry gives it its name
LongNameTaken ==
    (AtEntry /\ tar' # tar)
       => \A j \in LongRecords(tar[1].stream, RecordAt(tar[1])) :
             TurnNames(LongNameOf(tar[1].stream[j]))

\* an entry without an 'L' record and without a PAX path before it has the
\* name of its header
OwnNameAgain ==
    (AtEntry /\ tar' # tar
        /\ LongRecords(tar[1].stream, RecordAt(tar[1])) = {}
        /\ PaxRecords(tar[1].stream, RecordAt(tar[1])) = {})
       => TurnNames(HeaderName(tar[1].stream[RecordAt(tar[1])]))

(* C31, as stated: the name carried by an 'L' record is the name of the     *)
(* next header that is neither 'L' nor 'x', instead of that header's name   *)
(* and prefix; that entry consumes the name, so every later entry has the   *)
(* name of its own header.                                                  *)
C31_LongNameOverrides == [][LongNameTaken /\ OwnNameAgain]_vars

\* the last of the 'L' records and PAX paths before record k
LastNaming(stream, k) ==
    CHOOSE j \in LongRecords(stream, k) \cup PaxRecords(stream, k) :
       \A i \in LongRecords(stream, k) \cup PaxRecords(stream, k) : i <= j

\* the 'L' record that no other 'L' record and no PAX path follows gives the
\* entry its name
LastLongNameTaken ==
    (AtEntry /\ tar' # tar
        /\ LongRecords(tar[1].stream, RecordAt(tar[1])) # {}
        /\ LastNaming(tar[1].stream, RecordAt(tar[1]))
              \in LongRecords(tar[1].stream, RecordAt(tar[1])))
       => TurnNames(LongNameOf(tar[1].stream[LastNaming(tar[1].stream, RecordAt(tar[1]))]))

(* C31, amended: the name carried by an 'L' record is the name of the next  *)
(* header that is neither 'L' nor 'x', instead of that header's name and    *)
(* prefix, when no other 'L' record and no 'x' record with a path lies      *)
(* between the two; the name is normalized, and no entry is pushed when it  *)
(* normalizes to the empty name.  That entry consumes the name: an entry    *)
(* without an 'L' record or a PAX path right before it has the name of its  *)
(* own header.                                                              *)
C31_LastLongNameOverrides == [][LastLongNameTaken /\ OwnNameAgain]_vars

\* C31 witness: the long name has been taken by the first file of a stream
\* and the second file has its own name, after an 'x' record without a path
C31_Witness ==
    /\ tar # None
    /\ tar[1].at = "return"
    /\ Len(tar[1].stream) = 3
    /\ tar[1].stream[1].typeFlag = 76
    /\ Len(tar[1].entries) = 2
    /\ tar[1].entries[1].path = LongName
    /\ tar[1].entries[2].path = <<97, 46, 108, 111, 103>>

\* the name by the order PAX path, long name, header name
NameByPrecedence(stream, k) ==
    IF PaxRecords(stream, k) # {}
    THEN PaxPath(stream[CHOOSE j \in PaxRecords(stream, k) :
                           \A i \in PaxRecords(stream, k) : i <= j].data)[1]
    ELSE IF LongRecords(stream, k) # {}
    THEN LongNameOf(stream[CHOOSE j \in LongRecords(stream, k) :
                              \A i \in LongRecords(stream, k) : i <= j])
    ELSE HeaderName(stream[k])

PrecedenceKept ==
    (AtEntry /\ tar' # tar)
       => TurnNames(NameByPrecedence(tar[1].stream, RecordAt(tar[1])))

(* C32: the name of an entry of parseTarEntries is the PAX path when an 'x' *)
(* record with a path and an 'L' record precede it, in either order; the    *)
(* long name with only an 'L' record; and with neither prefix/name when the *)
(* prefix field is not empty and name otherwise.                            *)
C32_NamePrecedence == [][PrecedenceKept]_vars

----------------------------------------------------------------------------
(* Properties of the index as a whole *)

\* files and signatures have the same keys, each once, and every entry
\* agrees with its key, with its signature and in the lengths of its lines
IndexConsistent(ws) ==
    /\ MapKeys(ws.files) = DOMAIN ws.signatures
    /\ \A i, j \in 1..Len(ws.files) : ws.files[i].key = ws.files[j].key => i = j
    /\ \A i \in 1..Len(ws.files) :
          /\ ws.files[i].value.fileKey = ws.files[i].key
          /\ ws.files[i].key \in DOMAIN ws.signatures
          /\ ws.files[i].value.signature = ws.signatures[ws.files[i].key]
          /\ Len(ws.files[i].value.lines) = Len(ws.files[i].value.lowerLines)
          /\ Len(ws.files[i].value.lines) = Len(ws.files[i].value.lineMetas)

(* C35: after any sequence of indexDelta and search requests, in every      *)
(* workspace the files map and the signatures map have the same keys, and   *)
(* for every key k the stored entry has fileKey = k, the signature          *)
(* signatures[k], and lines, lowerLines and lineMetas of one length.        *)
C35_IndexInvariant ==
    \A w \in DOMAIN workspaceIndexes : IndexConsistent(workspaceIndexes[w])

\* C35 witness: a search has been answered on a workspace of two files with
\* different signatures, beside a second workspace with a file
C35_Witness ==
    /\ AnsweredSearch
    /\ DOMAIN workspaceIndexes = {"w1", "w2"}
    /\ Len(workspaceIndexes["w1"].files) = 2
    /\ workspaceIndexes["w1"].files[1].value.signature
          # workspaceIndexes["w1"].files[2].value.signature
    /\ Len(workspaceIndexes["w2"].files) = 1

\* the keys, signatures and entries of a workspace, none for one that is not known
FilesOf(indexes, w) ==
    IF w \in DOMAIN indexes THEN indexes[w] ELSE [files |-> <<>>, signatures |-> <<>>]

\* the workspace changes only in a step that answers an indexDelta for it
ChangedOnlyByOwnDelta(w) ==
    FilesOf(workspaceIndexes', w) # FilesOf(workspaceIndexes, w)
       => /\ IsWorkerStep
          /\ IsDeltaStep
          /\ request'[1].workspaceId = w

(* C36: the indexed files of a workspace W change only through an           *)
(* indexDelta addressed to W: a search on any workspace, the no-op and the  *)
(* regex-error paths included, and an indexDelta addressed to another       *)
(* workspace leave the keys, signatures and parsed entries of W unchanged.  *)
C36_OnlyOwnDeltaChangesIndex ==
    [][\A w \in DOMAIN workspaceIndexes \cup DOMAIN workspaceIndexes' :
          ChangedOnlyByOwnDelta(w)]_vars

\* C36 witness: a regex search that does not compile has been answered on a
\* workspace with files, beside another workspace with a file
C36_Witness ==
    /\ AnsweredSearch
    /\ request[1].options.regex
    /\ UnclosedGroup(request[1].query)
    /\ DOMAIN workspaceIndexes = {"w1", "w2"}
    /\ workspaceIndexes[request[1].workspaceId].files # <<>>
    /\ \A w \in DOMAIN workspaceIndexes : workspaceIndexes[w].files # <<>>

----------------------------------------------------------------------------
(* Properties of the resets of the displayed search state *)

\* a step in which the page is handed a response of the worker
ResponseHandled == outbox # <<>> /\ outbox' = Tail(outbox)

\* the search box is empty and the displayed search state is the one a reset
\* leaves
ResetAndEmpty == ~hasSearchInput(searchInput) /\ searchView = ClearedView

(* C39: once the search input is empty and executeSearch or clearSearch has *)
(* reset the displayed search state, no response of the worker changes it:  *)
(* the results, the matched files, the timeline and the aggregation stay    *)
(* empty until a new search is issued.                                      *)
C39_NoResultAfterReset ==
    [][(ResetAndEmpty /\ ResponseHandled) => searchView' = ClearedView]_vars

----------------------------------------------------------------------------
(* Properties of the searches across workspaces *)

\* the keys of the indexable files of the workspace the page shows
ShownFileKeys == {AllTextFiles(roots)[k].fileKey : k \in 1..Len(AllTextFiles(roots))}

(* C40: the displayed search results belong to the active workspace: every  *)
(* result and every matched file on display is a file of the workspace      *)
(* whose manifest the page shows, so that after a switch from workspace A   *)
(* to workspace B no response to a search issued against A is applied to    *)
(* the view of B.                                                           *)
C40_ResultsOfActiveWorkspace ==
    /\ \A k \in 1..Len(searchView.results) :
          searchView.results[k].fileKey \in ShownFileKeys
    /\ searchView.matchedFiles \subseteq ShownFileKeys

----------------------------------------------------------------------------
(* Properties of the indexing passes that overlap *)

\* no pass waits for a read, no effect is due, and the worker and the page
\* have handled every message
PassesCompleted ==
    /\ passes = <<>>
    /\ inbox = <<>>
    /\ outbox = <<>>
    /\ ~EffectDue

\* the worker holds an entry for the file under the workspace
WorkerHolds(workspaceId, fileKey) ==
    \E k \in 1..Len(FilesOf(workspaceIndexes, workspaceId).files) :
        FilesOf(workspaceIndexes, workspaceId).files[k].key = fileKey

(* C38: once all the passes of buildSearchIndex over a workspace have       *)
(* completed and the worker has handled their indexDelta messages, the      *)
(* index of the worker holds every readable indexable file of the roots the *)
(* workspace has, also when passes started from different sets of roots     *)
(* have overlapped and have ended in any order.                             *)
C38_OverlappingPassesComplete ==
    PassesCompleted =>
        \A j \in 1..Len(AllTextFiles(roots)) :
            AllTextFiles(roots)[j].fileKey \notin unreadable
               => WorkerHolds(activeManifestId, AllTextFiles(roots)[j].fileKey)

----------------------------------------------------------------------------
(* Properties of the deferred search *)

\* executeSearch has deferred the search for the input in the search box
SearchDeferred ==
    /\ hasSearchInput(searchInput)
    /\ pendingSearchAfterIndex
    /\ searchView.searching

\* the response to the latest search has been applied, or the user has
\* emptied the search box
SearchAnswered == ~searchView.searching \/ ~hasSearchInput(searchInput)

(* C37: whenever executeSearch has deferred a search with a non-empty input *)
(* because indexing is running or the index is incomplete, a search request *)
(* for the input is posted later and its response is applied, also when an  *)
(* indexable file stays unreadable: the search is not deferred for ever.    *)
C37_DeferredSearchIsRun == SearchDeferred ~> SearchAnswered

====
